---- MODULE Spec2Model ----
(***************************************************************************)
(* Dialog ("chat assistant") configuration store of the chatbot API:       *)
(* the SDK chat router (create_chat / update_chat / delete_chats), the     *)
(* assistant router (create_assistant, set_default_models),                *)
(* the knowledge-base router (update_knowledge_base) and the user router   *)
(* (set_tenant_info, login), modelled as a state machine over the          *)
(* persisted dialog, knowledge-base, tenant and user records; and the      *)
(* completion adapter of the public chat router, modelled as the state     *)
(* machine of one completion request and its stream.                       *)
(*                                                                         *)
(* Conventions                                                             *)
(*  - a Python dict is a function whose domain is a set of strings; every  *)
(*    key always carries values of one type;                               *)
(*  - a Python str that the code searches or formats (system template,     *)
(*    parameter key, embedding model id) is a sequence of one-character    *)
(*    strings; other strings are TLA+ strings;                             *)
(*  - similarity weights/thresholds are in tenths (0.3 is 3, 1.0 is 10);   *)
(*  - Python None as response data is the dict NullData;                   *)
(*  - a handler is a chain of operators, each taking the values the        *)
(*    earlier stages computed as arguments (TLC evaluates an argument      *)
(*    once, a LET definition at every use).                                *)
(***************************************************************************)
EXTENDS Integers, Sequences, FiniteSets, TLC

VARIABLES
    dialogs,    \* persisted Dialog rows: a sequence, row i has id i
    kbs,        \* persisted Knowledgebase rows, by kb id
    tenants,    \* persisted Tenant rows, by tenant id
    resp,       \* the response envelope of the last request
    lastReq,    \* the last request (recorded by the one-request specifications)
    pc,         \* position of the one-request specifications
    engine,     \* the inference engine's invocation serving a completion request
    chunks,     \* the chunks a completion stream has emitted, in order
    users,      \* persisted User rows, by user id (a user's id is its tenant's id)
    user_tenants, \* persisted UserTenant rows (who belongs to which tenant)
    redis_lock  \* the holder of the distributed lock "update_progress" (0: nobody)

vars == <<dialogs, kbs, tenants, resp, lastReq, pc, engine, chunks, users, user_tenants, redis_lock>>

(***************************************************************************)
(* Bounds                                                                  *)
(***************************************************************************)
MaxDialogs == 2         \* rows the dialog table may hold
MaxParams == 2          \* length of a prompt parameter list in a request
MaxIds == 2             \* length of a dataset id list in a request

(***************************************************************************)
(* Python dict helpers                                                     *)
(***************************************************************************)
EmptyDict == [k \in {} |-> TRUE]

Has(d, k) == k \in DOMAIN d

Get(d, k, default) == IF k \in DOMAIN d THEN d[k] ELSE default

Put(d, k, v) == [x \in (DOMAIN d) \cup {k} |-> IF x = k THEN v ELSE d[x]]

Del(d, k) == [x \in (DOMAIN d) \ {k} |-> d[x]]

\* dict.update(other)
Update(d, other) ==
    [x \in (DOMAIN d) \cup (DOMAIN other) |-> IF x \in DOMAIN other THEN other[x] ELSE d[x]]

SeqToSet(s) == {s[i] : i \in 1..Len(s)}

\* str.find(sub): the lowest index (from 0) where sub occurs, -1 when it does not
Find(s, sub) ==
    LET hits == {i \in 1..(Len(s) - Len(sub) + 1) : SubSeq(s, i, i + Len(sub) - 1) = sub}
    IN IF hits = {} THEN -1 ELSE (CHOOSE i \in hits : \A j \in hits : i <= j) - 1

(***************************************************************************)
(* Response envelope (api/utils/fastapi_utils.py)                          *)
(***************************************************************************)
NullData == [null |-> TRUE]

\* a message: its fixed text (kind) and the identifier formatted into it
Msg(kind, id, key) == [kind |-> kind, id |-> id, key |-> key]

get_json_result(data, code, message) == [code |-> code, message |-> message, data |-> data]

\* the default of get_error_data_result's code argument
DefaultErrorCode == "PARAM_ERROR"

get_error_data_result(message, code) == get_json_result(NullData, code, message)

Error(message) == get_error_data_result(message, DefaultErrorCode)

get_result(data, code, message) == get_json_result(data, code, message)

Success(data) == get_result(data, "SUCCESS", Msg("success", "", <<>>))

\* the JSONResponse bodies of the FastAPI helpers
get_error_response(message) == get_error_data_result(message, "PARAM_ERROR")

get_success_response(data) == get_json_result(data, "SUCCESS", Msg("success", "", <<>>))

(***************************************************************************)
(* Fixed data: tenants, tenant model registry, knowledge bases             *)
(***************************************************************************)
Tenants == {"t1", "t2"}

KbIds == {"A", "B", "C", "D", "E"}

\* embedding model ids "<family>@<provider>", as character-token sequences
BgeBaai == <<"bge", "@", "BAAI">>
BgeXinf == <<"bge", "@", "Xinference">>
BceYoudao == <<"bce", "@", "Youdao">>

\* rows of the tenant_llm table (never written by the routers)
TenantLLM ==
    { [tenant_id |-> "t1", llm_name |-> "chat1", model_type |-> "chat"],
      [tenant_id |-> "t1", llm_name |-> "chat2", model_type |-> "chat"],
      [tenant_id |-> "t1", llm_name |-> "rr1", model_type |-> "rerank"],
      [tenant_id |-> "t1", llm_name |-> "emb1", model_type |-> "embd"],
      [tenant_id |-> "t2", llm_name |-> "chat1", model_type |-> "chat"],
      [tenant_id |-> "t2", llm_name |-> "chat3", model_type |-> "chat"],
      [tenant_id |-> "t2", llm_name |-> "emb1", model_type |-> "embd"] }

\* TenantLLMService.query(tenant_id=, llm_name=, model_type=): truthy iff a row matches
TenantLLMService_query(tenant_id, llm_name, model_type) ==
    [tenant_id |-> tenant_id, llm_name |-> llm_name, model_type |-> model_type] \in TenantLLM

\* TenantLLMService.split_model_name_and_factory(name)[0]: the part before the last "@"
split_model_name(embd_id) ==
    LET ats == {i \in 1..Len(embd_id) : embd_id[i] = "@"}
    IN IF ats = {} THEN embd_id
       ELSE SubSeq(embd_id, 1, (CHOOSE i \in ats : \A j \in ats : j <= i) - 1)

\* KnowledgebaseService.accessible(kb_id=, user_id=): the tenant's own knowledge bases
KnowledgebaseService_accessible(K, kb_id, user_id) ==
    kb_id \in DOMAIN K /\ K[kb_id].tenant_id = user_id

\* KnowledgebaseService.get_by_ids(ids): the rows with these ids
KnowledgebaseService_get_by_ids(K, ids) == {kb_id \in DOMAIN K : kb_id \in SeqToSet(ids)}

InitKbs ==
    [kb_id \in KbIds |->
        CASE kb_id = "A" -> [tenant_id |-> "t1", embd_id |-> BgeBaai, chunk_num |-> 5]
          [] kb_id = "B" -> [tenant_id |-> "t1", embd_id |-> BceYoudao, chunk_num |-> 3]
          [] kb_id = "C" -> [tenant_id |-> "t1", embd_id |-> BgeXinf, chunk_num |-> 2]
          [] kb_id = "D" -> [tenant_id |-> "t1", embd_id |-> BgeBaai, chunk_num |-> 0]
          [] OTHER -> [tenant_id |-> "t2", embd_id |-> BgeBaai, chunk_num |-> 4]]

\* tenant rows as user_register writes them: the default models of LLMService.default_llm()
InitTenants == [t \in Tenants |-> [llm_id |-> "chat1", embd_id |-> "emb1"]]

(***************************************************************************)
(* Dialog table (api.db: Dialog model, DialogService)                      *)
(***************************************************************************)
VALID == "1"
INVALID == "0"

\* the registered users: each holds the access token of its last login
InitUsers ==
    [t \in Tenants |->
        [id |-> t,
         email |-> IF t = "t1" THEN "e1" ELSE "e2",
         password |-> "p1",
         access_token |-> IF t = "t1" THEN 1 ELSE 2,
         status |-> VALID]]

\* every registered user owns the tenant that carries its id
InitUserTenants == {[user_id |-> t, tenant_id |-> t, role |-> "owner"] : t \in Tenants}

DialogColumns ==
    {"id", "tenant_id", "name", "description", "icon", "llm_id", "llm_setting",
     "prompt_config", "similarity_threshold", "vector_similarity_weight", "top_n",
     "top_k", "rerank_id", "kb_ids", "status"}

\* a kb_ids column value: a list of ids, or (str = TRUE) the ids joined by ","
IdList(ids) == [str |-> FALSE, ids |-> ids]
IdString(ids) == [str |-> TRUE, ids |-> ids]

\* column defaults of the Dialog model
DialogDefaults ==
    [id |-> 0, tenant_id |-> "", name |-> "", description |-> "", icon |-> "",
     llm_id |-> "", llm_setting |-> [temperature |-> 1],
     prompt_config |-> EmptyDict, similarity_threshold |-> 2,
     vector_similarity_weight |-> 3, top_n |-> 6, top_k |-> 1024, rerank_id |-> "",
     kb_ids |-> IdList(<<>>), status |-> VALID]

\* the row a dict of keyword arguments / attribute assignments produces from a base row:
\* only columns are stored, other keys are plain attributes that are never written
AssignColumns(row, d) ==
    [c \in DialogColumns |-> IF c \in DOMAIN d THEN d[c] ELSE row[c]]

\* DialogService.save(**req): insert a row
DialogService_save(D, req) == Append(D, AssignColumns(DialogDefaults, req))

\* DialogService.query(name=, tenant_id=, status=)
DialogService_query_name(D, name, tenant_id, status) ==
    {i \in 1..Len(D) : D[i].name = name /\ D[i].tenant_id = tenant_id /\ D[i].status = status}

\* DialogService.query(tenant_id=, id=, status=)
DialogService_query_id(D, id, tenant_id, status) ==
    {i \in 1..Len(D) : i = id /\ D[i].tenant_id = tenant_id /\ D[i].status = status}

\* DialogService.delete(id=): the soft delete of the data model (status flag)
DialogService_delete(D, id) ==
    [i \in 1..Len(D) |-> IF i = id THEN [D[i] EXCEPT !.status = INVALID] ELSE D[i]]

\* DialogService.get_by_id(id) applied to the table: found flag
DialogService_has(D, id) == id \in 1..Len(D)

\* get_uuid(): an id no row has
get_uuid(D) == Len(D) + 1

(***************************************************************************)
(* SDK chat router (api/routers/sdk/chat.py): shared tables                *)
(***************************************************************************)
\* key_mapping: canonical (internal) key -> legacy (external) key, in dict order
key_mapping ==
    << <<"parameters", "variables">>,
       <<"prologue", "opener">>,
       <<"quote", "show_quote">>,
       <<"system", "prompt">>,
       <<"rerank_id", "rerank_model">>,
       <<"vector_similarity_weight", "keywords_similarity_weight">> >>

\* key_mapping.get(key, key)
key_mapping_get(key) ==
    IF \E i \in 1..Len(key_mapping) : key_mapping[i][1] = key
    THEN (CHOOSE pair \in SeqToSet(key_mapping) : pair[1] = key)[2]
    ELSE key

\* key_list of create_chat
key_list_create == <<"similarity_threshold", "vector_similarity_weight", "top_n", "rerank_id", "top_k">>

\* key_list of update_chat and list_chats
key_list_update == <<"similarity_threshold", "vector_similarity_weight", "top_n", "rerank_id">>

value_rerank_model == {"BAAI/bge-reranker-v2-m3", "maidalun1020/bce-reranker-base_v1"}

\* the system template of default_prompt, shortened to its one placeholder
DefaultSystem == <<"Y", "{", "knowledge", "}">>

default_prompt ==
    [system |-> DefaultSystem,
     prologue |-> "Hi! I'm your assistant, what can I do for you?",
     parameters |-> << [key |-> <<"knowledge">>, optional |-> FALSE] >>,
     empty_response |-> "Sorry! No relevant content was found in the knowledge base!",
     quote |-> TRUE,
     tts |-> FALSE,
     refine_multiturn |-> TRUE]

key_list_2 == <<"system", "prologue", "parameters", "empty_response", "quote", "tts", "refine_multiturn">>

\* for new_key, old_key in key_mapping.items(): if old_key in prompt:
\*     prompt[new_key] = prompt.pop(old_key)          (pairs i..6)
RECURSIVE RenameLegacy(_, _)
RenameLegacy(prompt, i) ==
    IF i > Len(key_mapping) THEN prompt
    ELSE LET new_key == key_mapping[i][1]
             old_key == key_mapping[i][2]
         IN IF old_key \in DOMAIN prompt
            THEN RenameLegacy(Put(Del(prompt, old_key), new_key, prompt[old_key]), i + 1)
            ELSE RenameLegacy(prompt, i + 1)

\* for key in key_list: if key in prompt: req[key] = prompt.pop(key)
\* returns the pair (req, prompt) after the loop
RECURSIVE Hoist(_, _, _, _)
Hoist(req, prompt, key_list, i) ==
    IF i > Len(key_list) THEN [req |-> req, prompt |-> prompt]
    ELSE LET key == key_list[i]
         IN IF key \in DOMAIN prompt
            THEN Hoist(Put(req, key, prompt[key]), Del(prompt, key), key_list, i + 1)
            ELSE Hoist(req, prompt, key_list, i + 1)

\* "Process prompt configuration": rename, hoist, req["prompt_config"] = req.pop("prompt");
\* a missing or empty prompt is falsy and leaves req as it is
\* req["prompt_config"] = req.pop("prompt"), on the pair (req, prompt) the loops left
PopPrompt(h) == Put(Del(h.req, "prompt"), "prompt_config", h.prompt)

DecodePrompt(req, key_list) ==
    IF ~Has(req, "prompt") \/ req["prompt"] = EmptyDict THEN req
    ELSE PopPrompt(Hoist(req, RenameLegacy(req["prompt"], 1), key_list, 1))

\* the dataset loop: the message of the first failing check, in list order
RECURSIVE CheckDatasets(_, _, _, _)
CheckDatasets(K, tenant_id, ids, i) ==
    IF i > Len(ids) THEN Msg("ok", "", <<>>)
    ELSE IF ~KnowledgebaseService_accessible(K, ids[i], tenant_id)
         THEN Msg("You don't own the dataset", ids[i], <<>>)
         ELSE IF K[ids[i]].chunk_num = 0
              THEN Msg("The dataset doesn't own parsed file", ids[i], <<>>)
              ELSE CheckDatasets(K, tenant_id, ids, i + 1)

\* embd_count: the distinct embedding-model families of the datasets
embd_count(K, ids) ==
    {split_model_name(K[kb_id].embd_id) : kb_id \in KnowledgebaseService_get_by_ids(K, ids)}

\* create_chat's family check: TRUE when the request is rejected
create_embd_mismatch(K, ids) == Cardinality(embd_count(K, ids)) > 1

\* update_chat's family check: TRUE when the request is rejected
update_embd_mismatch(K, ids) == Cardinality(embd_count(K, ids)) # 1

\* "Process LLM settings": the request after the block
\* req["llm_id"] = llm.pop("model_name")
PopModelName(req) ==
    IF Has(req["llm"], "model_name") THEN Put(req, "llm_id", req["llm"]["model_name"]) ELSE req

ProcessLlm(req) ==
    IF ~Has(req, "llm") \/ req["llm"] = EmptyDict THEN req
    ELSE Put(Del(PopModelName(req), "llm"), "llm_setting", Del(req["llm"], "model_name"))

\* TRUE when the llm block rejects the request
LlmRejected(req, tenant_id) ==
    /\ Has(req, "llm")
    /\ Has(req["llm"], "model_name")
    /\ ~TenantLLMService_query(tenant_id, req["llm"]["model_name"], "chat")

\* "Validate rerank model": TRUE when the request is rejected
RerankRejected(req, tenant_id) ==
    /\ Get(req, "rerank_id", "") # ""
    /\ req["rerank_id"] \notin value_rerank_model
    /\ ~TenantLLMService_query(tenant_id, req["rerank_id"], "rerank")

\* a merge that takes the default for absent fields only
RECURSIVE AssembleDefaultsAbsentOnly(_, _)
AssembleDefaultsAbsentOnly(prompt_config, i) ==
    IF i > Len(key_list_2) THEN prompt_config
    ELSE IF ~Has(prompt_config, key_list_2[i])
         THEN AssembleDefaultsAbsentOnly(Put(prompt_config, key_list_2[i], default_prompt[key_list_2[i]]), i + 1)
         ELSE AssembleDefaultsAbsentOnly(prompt_config, i + 1)

\* "Set default prompt parameters": prompt_config after the key_list_2 loop
RECURSIVE AssembleDefaults(_, _)
AssembleDefaults(prompt_config, i) ==
    IF i > Len(key_list_2) THEN prompt_config
    ELSE IF \/ ~Has(prompt_config, key_list_2[i])
            \/ key_list_2[i] = "system" /\ prompt_config["system"] = <<>>
         THEN AssembleDefaults(Put(prompt_config, key_list_2[i], default_prompt[key_list_2[i]]), i + 1)
         ELSE AssembleDefaults(prompt_config, i + 1)

\* "{%s}" % key
Placeholder(key) == <<"{">> \o key \o <<"}">>

\* "Validate parameters are used in system prompt": index of the first parameter
\* that is not optional and whose placeholder system lacks, 0 when there is none
\* the least member of a set of indices, 0 for the empty set
First(S) == IF S = {} THEN 0 ELSE CHOOSE i \in S : \A j \in S : i <= j

\* the greatest member of a set of indices, 0 for the empty set
Last(S) == IF S = {} THEN 0 ELSE CHOOSE i \in S : \A j \in S : j <= i

\* a validation loop that keeps going and reports the last unused parameter
LastUnusedParameter(prompt_config) ==
    Last({i \in 1..Len(prompt_config["parameters"]) :
            /\ ~Get(prompt_config["parameters"][i], "optional", FALSE)
            /\ Find(prompt_config["system"], Placeholder(prompt_config["parameters"][i]["key"])) < 0})

FirstUnusedParameter(prompt_config) ==
    First({i \in 1..Len(prompt_config["parameters"]) :
            /\ ~Get(prompt_config["parameters"][i], "optional", FALSE)
            /\ Find(prompt_config["system"], Placeholder(prompt_config["parameters"][i]["key"])) < 0})

(***************************************************************************)
(* Response formatting of the chat router                                  *)
(***************************************************************************)
\* renamed_dict: the keys of prompt_config renamed by key_mapping
RenamedDict(prompt_config) ==
    [new_key \in {key_mapping_get(k) : k \in DOMAIN prompt_config} |->
        prompt_config[CHOOSE k \in DOMAIN prompt_config : key_mapping_get(k) = new_key]]

\* new_dict: the top-level columns nested back into the prompt
\* (1 - vector_similarity_weight, weights in tenths)
NewDict(res) ==
    [similarity_threshold |-> res["similarity_threshold"],
     keywords_similarity_weight |-> 10 - res["vector_similarity_weight"],
     top_n |-> res["top_n"],
     rerank_model |-> res["rerank_id"]]

RECURSIVE DelKeys(_, _, _)
DelKeys(d, keys, i) == IF i > Len(keys) THEN d ELSE DelKeys(Del(d, keys[i]), keys, i + 1)

\* res["prompt"] = renamed_dict; del res["prompt_config"]; res["prompt"].update(new_dict);
\* del res[key] for key in key_list; res["llm"] = llm_setting + model_name
\* res["prompt"] = renamed_dict; del res["prompt_config"]; res["prompt"].update(new_dict)
NestPrompt(res) ==
    Put(Del(res, "prompt_config"), "prompt", Update(RenamedDict(res["prompt_config"]), NewDict(res)))

\* res["llm"] = res.pop("llm_setting"); res["llm"]["model_name"] = res.pop("llm_id")
RenameLlm(res) ==
    Del(Put(Del(res, "llm_setting"), "llm", Put(res["llm_setting"], "model_name", res["llm_id"])), "llm_id")

\* del res["kb_ids"]; res["dataset_ids"] = dataset_ids; res["avatar"] = res.pop("icon")
FinalFormat(res, dataset_ids) ==
    Put(Put(Del(Del(res, "kb_ids"), "icon"), "dataset_ids", dataset_ids), "avatar", res["icon"])

\* nest the prompt, del res[key] for key in key_list, rename the llm fields
EncodeCommon(row, key_list) == RenameLlm(DelKeys(NestPrompt(row), key_list, 1))

\* create_chat, "Final response formatting": dataset_ids is taken from the request dict
EncodeCreate(row, dataset_ids) == FinalFormat(EncodeCommon(row, key_list_create), IdList(dataset_ids))

\* update_chat and list_chats: dataset_ids is the stored kb_ids
EncodeStored(row) == FinalFormat(EncodeCommon(row, key_list_update), row["kb_ids"])

(***************************************************************************)
(* create_chat                                                             *)
(***************************************************************************)
\* ids = [i for i in req.get("dataset_ids", []) if i]
TruthyIds(req) == SelectSeq(Get(req, "dataset_ids", <<>>), LAMBDA i : i # "")

\* req[k] = req.get(k, v)
SetDefault(req, k, v) == Put(req, k, Get(req, k, v))

\* "Initialize additional fields"
InitFields(D, req) ==
    SetDefault(
        SetDefault(
            SetDefault(
                Put(SetDefault(Put(req, "id", get_uuid(D)), "description", "A helpful Assistant"),
                    "icon", Get(req, "avatar", "")),
                "top_n", 6),
            "top_k", 1024),
        "rerank_id", "")

\* "Use tenant's default LLM if not specified"
DefaultLlm(req, T, tenant_id) ==
    IF Get(req, "llm_id", "") = "" THEN Put(req, "llm_id", T[tenant_id].llm_id) ELSE req

\* the request dict as it reaches "Validate rerank model": datasets, llm, prompt, fields
CreatePrepared(D, request) ==
    InitFields(D, DecodePrompt(ProcessLlm(Put(request, "kb_ids", IdList(TruthyIds(request)))),
                               key_list_create))

\* "Set default prompt parameters"
SetPromptDefaults(req) ==
    Put(req, "prompt_config", AssembleDefaults(Get(req, "prompt_config", EmptyDict), 1))

\* the request dict as it reaches "Validate parameters are used in system prompt"
CreateFinal(T, tenant_id, prepared) ==
    SetPromptDefaults(Put(DefaultLlm(prepared, T, tenant_id), "tenant_id", tenant_id))

\* "Save chat" and "Get and format response", on the dialog table saved
\* res["dataset_ids"] = req["dataset_ids"] raises KeyError after the row is saved
CreateRespond(final, saved) ==
    IF ~Has(final, "dataset_ids")
    THEN [resp |-> Error(Msg("KeyError", "dataset_ids", <<>>)), dialogs |-> saved]
    ELSE [resp |-> Success(EncodeCreate(saved[Len(saved)], final["dataset_ids"])), dialogs |-> saved]

\* from "Validate parameters are used in system prompt" on
\* unused: the index of the first unused parameter, 0 when there is none
CreateSave(D, saveOk, final, unused) ==
    IF unused # 0
    THEN [resp |-> Error(Msg("Parameter is not used", "",
                             final["prompt_config"]["parameters"][unused]["key"])),
          dialogs |-> D]
    ELSE IF ~saveOk
    THEN [resp |-> Error(Msg("Fail to new a chat!", "", <<>>)), dialogs |-> D]
    ELSE CreateRespond(final, DialogService_save(D, final))

\* from "Validate rerank model" on
CreateValidate(D, T, tenant_id, request, saveOk, prepared, final) ==
    IF RerankRejected(prepared, tenant_id)
    THEN [resp |-> Error(Msg("rerank_model doesn't exist", prepared["rerank_id"], <<>>)),
          dialogs |-> D]
    ELSE IF Get(request, "name", "") = ""
    THEN [resp |-> Error(Msg("name is required", "", <<>>)), dialogs |-> D]
    ELSE IF DialogService_query_name(D, request["name"], tenant_id, VALID) # {}
    THEN [resp |-> Error(Msg("Duplicated chat name in creating chat", "", <<>>)), dialogs |-> D]
    ELSE IF Get(request, "tenant_id", "") # ""
    THEN [resp |-> Error(Msg("tenant_id must not be provided", "", <<>>)), dialogs |-> D]
    ELSE CreateSave(D, saveOk, final, FirstUnusedParameter(final["prompt_config"]))

\* "Validate dataset IDs", "Process LLM settings", "Get tenant information"
\* dsMsg: what the dataset loop found
CreateChecks(D, K, T, tenant_id, request, saveOk, dsMsg, prepared) ==
    IF dsMsg.kind # "ok" THEN [resp |-> Error(dsMsg), dialogs |-> D]
    ELSE IF create_embd_mismatch(K, TruthyIds(request))
    THEN [resp |-> get_result(NullData, "AUTHENTICATION_ERROR",
                              Msg("Datasets use different embedding models", "", <<>>)),
          dialogs |-> D]
    ELSE IF LlmRejected(request, tenant_id)
    THEN [resp |-> Error(Msg("model_name doesn't exist", request["llm"]["model_name"], <<>>)),
          dialogs |-> D]
    ELSE IF tenant_id \notin DOMAIN T
    THEN [resp |-> Error(Msg("Tenant not found!", "", <<>>)), dialogs |-> D]
    ELSE CreateValidate(D, T, tenant_id, request, saveOk, prepared, CreateFinal(T, tenant_id, prepared))

\* the whole handler: the response and the dialog table it leaves
\* saveOk: the truth value DialogService.save returns
create_chat(D, K, T, tenant_id, request, saveOk) ==
    CreateChecks(D, K, T, tenant_id, request, saveOk,
                 CheckDatasets(K, tenant_id, TruthyIds(request), 1), CreatePrepared(D, request))

(***************************************************************************)
(* update_chat                                                             *)
(***************************************************************************)
\* req["do_refer"] = req.pop("show_quotation")
RenameShowQuotation(req) ==
    IF Has(req, "show_quotation")
    THEN Put(Del(req, "show_quotation"), "do_refer", req["show_quotation"])
    ELSE req

\* req["kb_ids"] = ids of the datasets found
SetKbIds(req) == IF Has(req, "dataset_ids") THEN Put(req, "kb_ids", IdList(req["dataset_ids"])) ELSE req

\* the request dict as it reaches "Update chat"
UpdatePrepared(request) ==
    DecodePrompt(ProcessLlm(SetKbIds(RenameShowQuotation(request))), key_list_update)

\* for key, value in req.items(): if key != "id": setattr(res, key, value)
SetAttrs(row, req) == AssignColumns(row, Del(req, "id"))

\* res.save(): write the row back
RowSave(D, id, row) == [i \in 1..Len(D) |-> IF i = id THEN row ELSE D[i]]

\* "Update chat" and "Format response", on the row with the attributes set
UpdateRespond(D, chat_id, saveOk, row) ==
    IF ~saveOk
    THEN [resp |-> Error(Msg("Fail to update the chat!", "", <<>>)), dialogs |-> D]
    ELSE [resp |-> Success(EncodeStored(row)), dialogs |-> RowSave(D, chat_id, row)]

\* an update that assigns and saves the row before the embedding-family check
UpdateChecksSaveFirst(D, K, T, tenant_id, chat_id, request, saveOk, dsMsg) ==
    IF DialogService_query_id(D, chat_id, tenant_id, VALID) = {}
    THEN [resp |-> Error(Msg("You do not own the chat", "", <<>>)), dialogs |-> D]
    ELSE IF dsMsg.kind # "ok" THEN [resp |-> Error(dsMsg), dialogs |-> D]
    ELSE IF Has(request, "dataset_ids") /\ update_embd_mismatch(K, request["dataset_ids"])
    THEN [resp |-> get_result(NullData, "AUTHENTICATION_ERROR",
                              Msg("Datasets use different embedding models", "", <<>>)),
          dialogs |-> RowSave(D, chat_id, SetAttrs(D[chat_id], UpdatePrepared(request)))]
    ELSE IF LlmRejected(request, tenant_id)
    THEN [resp |-> Error(Msg("model_name doesn't exist", request["llm"]["model_name"], <<>>)),
          dialogs |-> D]
    ELSE IF tenant_id \notin DOMAIN T
    THEN [resp |-> Error(Msg("Tenant not found!", "", <<>>)), dialogs |-> D]
    ELSE IF ~DialogService_has(D, chat_id)
    THEN [resp |-> Error(Msg("Chat not found!", "", <<>>)), dialogs |-> D]
    ELSE UpdateRespond(D, chat_id, saveOk, SetAttrs(D[chat_id], UpdatePrepared(request)))

\* from "Verify ownership" to "Get existing chat"
\* dsMsg: what the dataset loop found
UpdateChecks(D, K, T, tenant_id, chat_id, request, saveOk, dsMsg) ==
    IF DialogService_query_id(D, chat_id, tenant_id, VALID) = {}
    THEN [resp |-> Error(Msg("You do not own the chat", "", <<>>)), dialogs |-> D]
    ELSE IF dsMsg.kind # "ok" THEN [resp |-> Error(dsMsg), dialogs |-> D]
    ELSE IF Has(request, "dataset_ids") /\ update_embd_mismatch(K, request["dataset_ids"])
    THEN [resp |-> get_result(NullData, "AUTHENTICATION_ERROR",
                              Msg("Datasets use different embedding models", "", <<>>)),
          dialogs |-> D]
    ELSE IF LlmRejected(request, tenant_id)
    THEN [resp |-> Error(Msg("model_name doesn't exist", request["llm"]["model_name"], <<>>)),
          dialogs |-> D]
    ELSE IF tenant_id \notin DOMAIN T
    THEN [resp |-> Error(Msg("Tenant not found!", "", <<>>)), dialogs |-> D]
    ELSE IF ~DialogService_has(D, chat_id)
    THEN [resp |-> Error(Msg("Chat not found!", "", <<>>)), dialogs |-> D]
    ELSE UpdateRespond(D, chat_id, saveOk, SetAttrs(D[chat_id], UpdatePrepared(request)))

\* the whole handler: the response and the dialog table it leaves
\* saveOk: the truth value res.save() returns
update_chat(D, K, T, tenant_id, chat_id, request, saveOk) ==
    UpdateChecks(D, K, T, tenant_id, chat_id, request, saveOk,
                 IF Has(request, "dataset_ids")
                 THEN CheckDatasets(K, tenant_id, request["dataset_ids"], 1)
                 ELSE Msg("ok", "", <<>>))

(***************************************************************************)
(* delete_chats                                                            *)
(***************************************************************************)
\* check_duplicate_ids: len(ids) != len(set(ids))
check_duplicate_ids(ids) == Len(ids) # Cardinality(SeqToSet(ids))

RECURSIVE DeleteAll(_, _, _)
DeleteAll(D, ids, i) ==
    IF i > Len(ids) THEN D ELSE DeleteAll(DialogService_delete(D, ids[i]), ids, i + 1)

\* raiseAt: the position in ids of the DialogService.delete that raises (0: none does);
\* the dialogs before it are deleted when the handler returns the failure
delete_chats(D, tenant_id, ids, raiseAt) ==
    LET notOwned == {i \in 1..Len(ids) : DialogService_query_id(D, ids[i], tenant_id, VALID) = {}}
    IN  IF ids = <<>>
        THEN [resp |-> Error(Msg("Invalid ids parameter", "", <<>>)), dialogs |-> D]
        ELSE IF check_duplicate_ids(ids)
        THEN [resp |-> Error(Msg("Duplicate ids in the list", "", <<>>)), dialogs |-> D]
        ELSE IF notOwned # {}
        THEN [resp |-> Error(Msg("You do not own the chat", "", <<>>)), dialogs |-> D]
        ELSE IF raiseAt \in 1..Len(ids)
        THEN [resp |-> Error(Msg("Failed to delete chat", "", <<>>)),
              dialogs |-> DeleteAll(D, SubSeq(ids, 1, raiseAt - 1), 1)]
        ELSE [resp |-> Success([delete_ids |-> ids]), dialogs |-> DeleteAll(D, ids, 1)]

(***************************************************************************)
(* Assistant router (api/routers/assistant.py)                             *)
(***************************************************************************)
\* the response body: to_json() with a joined kb_ids split back into a list
AssistantJson(row) == [row EXCEPT !["kb_ids"] = IdList(row["kb_ids"].ids)]

\* the checks shared by both branches: the error message, kind "ok" when all pass
AssistantChecks(K, tenant_id, req) ==
    LET kb_ids == Get(req, "kb_ids", <<>>)
        bad == {i \in 1..Len(kb_ids) : ~KnowledgebaseService_accessible(K, kb_ids[i], tenant_id)}
        llm_id == Get(req, "llm_id", "")
        rerank_id == Get(req, "rerank_id", "")
    IN  IF kb_ids = <<>> THEN Msg("At least one knowledge base must be specified", "", <<>>)
        ELSE IF check_duplicate_ids(kb_ids) THEN Msg("Duplicate knowledge base IDs", "", <<>>)
        ELSE IF bad # {}
        THEN Msg("Knowledge base not found or not accessible",
                 kb_ids[CHOOSE i \in bad : \A j \in bad : i <= j], <<>>)
        ELSE IF llm_id = "" THEN Msg("LLM ID is required", "", <<>>)
        ELSE IF ~TenantLLMService_query(tenant_id, llm_id, "chat")
        THEN Msg("LLM not found or not accessible", llm_id, <<>>)
        ELSE IF /\ rerank_id # ""
                /\ rerank_id \notin value_rerank_model
                /\ ~TenantLLMService_query(tenant_id, rerank_id, "rerank")
        THEN Msg("Reranker not found or not accessible", rerank_id, <<>>)
        ELSE Msg("ok", "", <<>>)

\* req["kb_ids"] = ",".join(req["kb_ids"])
JoinKbIds(req) == IF Has(req, "kb_ids") THEN Put(req, "kb_ids", IdString(req["kb_ids"])) ELSE req

\* the update branch (req carries an id)
assistant_update(D, tenant_id, req, saveOk) ==
    LET assistant_id == req["id"]
        found == DialogService_query_id(D, assistant_id, tenant_id, VALID)
        new_name == Get(req, "name", "")
        existing == DialogService_query_name(D, new_name, tenant_id, VALID)
        first == CHOOSE i \in existing : \A j \in existing : i <= j
        row == SetAttrs(D[assistant_id], JoinKbIds(req))
    IN  IF found = {}
        THEN [resp |-> Error(Msg("Assistant not found or not accessible", "", <<>>)), dialogs |-> D]
        ELSE IF new_name # "" /\ new_name # D[assistant_id].name
                /\ existing # {} /\ first # assistant_id
        THEN [resp |-> Error(Msg("Assistant with name already exists", new_name, <<>>)), dialogs |-> D]
        ELSE IF ~saveOk
        THEN [resp |-> get_error_data_result(Msg("Failed to update assistant", "", <<>>), "SERVER_ERROR"),
              dialogs |-> D]
        ELSE [resp |-> Success(AssistantJson(row)), dialogs |-> RowSave(D, assistant_id, row)]

\* the create branch
assistant_create(D, tenant_id, req, saveOk) ==
    LET name == Get(req, "name", "")
        r1 == Put(Put(Put(req, "id", get_uuid(D)), "tenant_id", tenant_id), "status", VALID)
        saved == DialogService_save(D, JoinKbIds(r1))
    IN  IF name = ""
        THEN [resp |-> Error(Msg("Assistant name is required", "", <<>>)), dialogs |-> D]
        ELSE IF DialogService_query_name(D, name, tenant_id, VALID) # {}
        THEN [resp |-> Error(Msg("Assistant with name already exists", name, <<>>)), dialogs |-> D]
        ELSE IF ~saveOk
        THEN [resp |-> get_error_data_result(Msg("Failed to create assistant", "", <<>>), "SERVER_ERROR"),
              dialogs |-> D]
        ELSE [resp |-> Success(AssistantJson(saved[Len(saved)])), dialogs |-> saved]

\* the whole handler: an id of 0 is the absent (falsy) id
create_assistant(D, K, tenant_id, req, saveOk) ==
    LET msg == AssistantChecks(K, tenant_id, req)
    IN  IF msg.kind # "ok" THEN [resp |-> Error(msg), dialogs |-> D]
        ELSE IF Get(req, "id", 0) # 0 THEN assistant_update(D, tenant_id, req, saveOk)
        ELSE assistant_create(D, tenant_id, req, saveOk)

\* set_default_models: both models are validated against the tenant's registry
set_default_models(T, tenant_id, embedding_model, chat_model, saveOk) ==
    IF tenant_id \notin DOMAIN T
    THEN [resp |-> get_error_data_result(Msg("Tenant not found", "", <<>>), "SERVER_ERROR"), tenants |-> T]
    ELSE IF ~TenantLLMService_query(tenant_id, embedding_model, "embd")
    THEN [resp |-> Error(Msg("Embedding model not found or not accessible", embedding_model, <<>>)),
          tenants |-> T]
    ELSE IF ~TenantLLMService_query(tenant_id, chat_model, "chat")
    THEN [resp |-> Error(Msg("Chat model not found or not accessible", chat_model, <<>>)), tenants |-> T]
    ELSE IF ~saveOk
    THEN [resp |-> get_error_data_result(Msg("Failed to set default models", "", <<>>), "SERVER_ERROR"),
          tenants |-> T]
    ELSE [resp |-> Success([embedding_model |-> embedding_model, chat_model |-> chat_model]),
          tenants |-> [T EXCEPT ![tenant_id] = [llm_id |-> chat_model, embd_id |-> embedding_model]]]

(***************************************************************************)
(* User router (api/routers/user.py): set_tenant_info                      *)
(***************************************************************************)
set_tenant_info(T, tenant_id, tenant_info, saveOk) ==
    IF tenant_info.tenant_id # tenant_id
    THEN [resp |-> Error(Msg("You don't own the tenant!", "", <<>>)), tenants |-> T]
    ELSE IF tenant_id \notin DOMAIN T
    THEN [resp |-> Error(Msg("Tenant not found!", "", <<>>)), tenants |-> T]
    ELSE IF ~saveOk
    THEN [resp |-> Error(Msg("Fail to update tenant!", "", <<>>)), tenants |-> T]
    ELSE [resp |-> Success([value |-> TRUE]),
          tenants |-> [T EXCEPT ![tenant_id] =
                          [llm_id |-> tenant_info.llm_id, embd_id |-> tenant_info.embd_id]]]

(***************************************************************************)
(* Knowledge-base router (api/routers/kb.py): update_knowledge_base        *)
(***************************************************************************)
\* update_dict holds the fields the request sets; every one is assigned to the row
\* for key, value in update_dict.items(): setattr(kb_obj, key, value)
SetKbAttrs(kb_obj, update_dict) ==
    [c \in DOMAIN kb_obj |-> IF c \in DOMAIN update_dict THEN update_dict[c] ELSE kb_obj[c]]

update_knowledge_base(K, tenant_id, kb_id, update_dict, saveOk) ==
    IF ~KnowledgebaseService_accessible(K, kb_id, tenant_id)
    THEN [resp |-> Error(Msg("Knowledge base not found or not accessible", kb_id, <<>>)), kbs |-> K]
    ELSE IF ~saveOk
    THEN [resp |-> get_error_data_result(Msg("Failed to update knowledge base", "", <<>>), "SERVER_ERROR"),
          kbs |-> K]
    ELSE [resp |-> Success(SetKbAttrs(K[kb_id], update_dict)),
          kbs |-> [K EXCEPT ![kb_id] = SetKbAttrs(K[kb_id], update_dict)]]

(***************************************************************************)
(* The state machine: one action per request handler                       *)
(***************************************************************************)
Stamp(op, r) == [op |-> op, code |-> r.code, message |-> r.message, data |-> r.data]

\* the handler's outcome becomes the next state
DialogsOutcome(op, out) == dialogs' = out.dialogs /\ resp' = Stamp(op, out.resp)
KbsOutcome(op, out) == kbs' = out.kbs /\ resp' = Stamp(op, out.resp)
TenantsOutcome(op, out) == tenants' = out.tenants /\ resp' = Stamp(op, out.resp)

NoResp == [op |-> "none", code |-> "SUCCESS", message |-> Msg("success", "", <<>>), data |-> NullData]

NoReq == [op |-> "none"]

\* no completion request is being served
NoEngine == [calls |-> <<>>, script |-> <<>>, produced |-> 0, state |-> "idle"]

\* the database after installation and ingestion: no dialog, the tenants' rows,
\* the knowledge bases with the chunk counts the parsing pipeline left
InitStore ==
    /\ dialogs = <<>>
    /\ kbs = InitKbs
    /\ tenants = InitTenants
    /\ users = InitUsers
    /\ user_tenants = InitUserTenants
    /\ redis_lock = 0
    /\ resp = NoResp

Init ==
    /\ InitStore
    /\ lastReq = NoReq
    /\ pc = "serve"
    /\ engine = NoEngine
    /\ chunks = <<>>

\* POST /chats by tenant_id with a body from reqs
CreateChat(reqs) ==
    /\ pc = "serve"
    /\ Len(dialogs) < MaxDialogs
    /\ \E tenant_id \in Tenants, request \in reqs, saveOk \in BOOLEAN :
        DialogsOutcome("create_chat", create_chat(dialogs, kbs, tenants, tenant_id, request, saveOk))
    /\ UNCHANGED <<kbs, tenants, lastReq, pc, engine, chunks, users, user_tenants, redis_lock>>

\* PUT /chats/{chat_id}
UpdateChat(reqs) ==
    /\ pc = "serve"
    /\ \E tenant_id \in Tenants, chat_id \in 1..MaxDialogs, request \in reqs, saveOk \in BOOLEAN :
        DialogsOutcome("update_chat", update_chat(dialogs, kbs, tenants, tenant_id, chat_id, request, saveOk))
    /\ UNCHANGED <<kbs, tenants, lastReq, pc, engine, chunks, users, user_tenants, redis_lock>>

\* DELETE /chats
DeleteChats(idLists) ==
    /\ pc = "serve"
    /\ \E tenant_id \in Tenants, ids \in idLists : \E raiseAt \in 0..Len(ids) :
        DialogsOutcome("delete_chats", delete_chats(dialogs, tenant_id, ids, raiseAt))
    /\ UNCHANGED <<kbs, tenants, lastReq, pc, engine, chunks, users, user_tenants, redis_lock>>

\* POST /assistant (create when the body has no id, update when it has one)
CreateAssistant(reqs) ==
    /\ pc = "serve"
    /\ \E tenant_id \in Tenants, req \in reqs, saveOk \in BOOLEAN :
        /\ Get(req, "id", 0) = 0 => Len(dialogs) < MaxDialogs
        /\ DialogsOutcome("create_assistant", create_assistant(dialogs, kbs, tenant_id, req, saveOk))
    /\ UNCHANGED <<kbs, tenants, lastReq, pc, engine, chunks, users, user_tenants, redis_lock>>

\* PUT /kb
UpdateKnowledgeBase(kbIds, dicts) ==
    /\ pc = "serve"
    /\ \E tenant_id \in Tenants, kb_id \in kbIds, update_dict \in dicts, saveOk \in BOOLEAN :
        KbsOutcome("update_knowledge_base",
                   update_knowledge_base(kbs, tenant_id, kb_id, update_dict, saveOk))
    /\ UNCHANGED <<dialogs, tenants, lastReq, pc, engine, chunks, users, user_tenants, redis_lock>>

\* POST /user/set_tenant_info
SetTenantInfo(infos) ==
    /\ pc = "serve"
    /\ \E tenant_id \in Tenants, tenant_info \in infos, saveOk \in BOOLEAN :
        TenantsOutcome("set_tenant_info", set_tenant_info(tenants, tenant_id, tenant_info, saveOk))
    /\ UNCHANGED <<dialogs, kbs, lastReq, pc, engine, chunks, users, user_tenants, redis_lock>>

\* POST /defaults
SetDefaultModels(chatModels) ==
    /\ pc = "serve"
    /\ \E tenant_id \in Tenants, chat_model \in chatModels, saveOk \in BOOLEAN :
        TenantsOutcome("set_default_models",
                       set_default_models(tenants, tenant_id, "emb1", chat_model, saveOk))
    /\ UNCHANGED <<dialogs, kbs, lastReq, pc, engine, chunks, users, user_tenants, redis_lock>>

(***************************************************************************)
(* Spec: the dialog lifecycle (names, ownership, deletion)                 *)
(***************************************************************************)
Names == {"a", "b"}

LifeCreateReqs ==
    {[name |-> n, dataset_ids |-> <<>>] : n \in Names}
    \cup {[name |-> "a"], [name |-> "", dataset_ids |-> <<>>], [name |-> "b", dataset_ids |-> <<"E">>]}

LifeUpdateReqs ==
    {[name |-> n] : n \in Names} \cup {[dataset_ids |-> <<"A", "B">>]}

LifeDeleteLists == {<<>>, <<1>>, <<1, 2>>, <<1, 1>>}

LifeAssistantReqs ==
    {[name |-> n, kb_ids |-> <<"A">>, llm_id |-> "chat1"] : n \in Names}
    \cup {[name |-> "a", kb_ids |-> <<"A">>, llm_id |-> "chat1", id |-> i] : i \in 1..MaxDialogs}

CreateChatStep == CreateChat(LifeCreateReqs)
UpdateChatStep == UpdateChat(LifeUpdateReqs)
DeleteChatsStep == DeleteChats(LifeDeleteLists)
CreateAssistantStep == CreateAssistant(LifeAssistantReqs)

Next ==
    \/ CreateChatStep
    \/ UpdateChatStep
    \/ DeleteChatsStep
    \/ CreateAssistantStep

Spec == Init /\ [][Next]_vars

(***************************************************************************)
(* Claims checked under Spec                                               *)
(***************************************************************************)
\* C1: create_chat is all-or-nothing: a create_chat response whose code is not 0
\* leaves the dialog table as it was (no new dialog is persisted).
C1_CreateAllOrNothing ==
    [][(resp'.op = "create_chat" /\ resp'.code # "SUCCESS") => dialogs' = dialogs]_vars

\* C3: no two valid dialogs of the same tenant have the same name.
C3_NameUnique ==
    \A i, j \in 1..Len(dialogs) :
        (/\ i # j
         /\ dialogs[i].status = VALID
         /\ dialogs[j].status = VALID
         /\ dialogs[i].tenant_id = dialogs[j].tenant_id)
        => dialogs[i].name # dialogs[j].name

(***************************************************************************)
(* SpecKb: dialogs and the knowledge bases they reference                  *)
(***************************************************************************)
KbCreateReqs ==
    {[name |-> "a", dataset_ids |-> ids] : ids \in {<<>>, <<"A">>, <<"A", "C">>, <<"A", "B">>, <<"D">>}}

KbUpdateReqs ==
    {[dataset_ids |-> ids] : ids \in {<<>>, <<"B">>, <<"A", "C">>, <<"A", "B">>, <<"E">>}}

KbAssistantReqs ==
    {[name |-> "b", kb_ids |-> ids, llm_id |-> "chat1"] : ids \in {<<"A">>, <<"A", "B">>, <<"A", "A">>}}

KbUpdateDicts == {[embd_id |-> BceYoudao], [embd_id |-> BgeXinf]}

KbCreateChatStep == CreateChat(KbCreateReqs)
KbUpdateChatStep == UpdateChat(KbUpdateReqs)
KbCreateAssistantStep == CreateAssistant(KbAssistantReqs)
KbUpdateKnowledgeBaseStep == UpdateKnowledgeBase({"A", "E"}, KbUpdateDicts)

NextKb ==
    \/ KbCreateChatStep
    \/ KbUpdateChatStep
    \/ KbCreateAssistantStep
    \/ KbUpdateKnowledgeBaseStep

SpecKb == Init /\ [][NextKb]_vars

\* the embedding-model families of the knowledge bases a dialog row references
DialogFamilies(row) == {split_model_name(kbs[kb_id].embd_id) : kb_id \in SeqToSet(row.kb_ids.ids)}

\* C4: every persisted dialog with a non-empty kb_ids references knowledge bases
\* of one embedding-model family.
C4_FamilyAgreement ==
    \A i \in 1..Len(dialogs) :
        dialogs[i].kb_ids.ids # <<>> => Cardinality(DialogFamilies(dialogs[i])) = 1

(***************************************************************************)
(* SpecModels: dialogs and the chat models they reference                  *)
(***************************************************************************)
ModelCreateReqs ==
    {[name |-> "a", dataset_ids |-> <<>>]}
    \cup {[name |-> "a", dataset_ids |-> <<>>, llm |-> [model_name |-> m, temperature |-> 7]] :
            m \in {"chat2", "bogus"}}

ModelUpdateReqs == {[llm |-> [model_name |-> m]] : m \in {"chat2", "chat3", "bogus"}}

TenantInfos ==
    {[tenant_id |-> t, asr_id |-> "", embd_id |-> "emb1", img2txt_id |-> "", llm_id |-> m] :
        t \in Tenants, m \in {"chat1", "bogus"}}

ModelCreateChatStep == CreateChat(ModelCreateReqs)
ModelUpdateChatStep == UpdateChat(ModelUpdateReqs)
ModelSetTenantInfoStep == SetTenantInfo(TenantInfos)
ModelSetDefaultModelsStep == SetDefaultModels({"chat2", "bogus"})

NextModels ==
    \/ ModelCreateChatStep
    \/ ModelUpdateChatStep
    \/ ModelSetTenantInfoStep
    \/ ModelSetDefaultModelsStep

SpecModels == Init /\ [][NextModels]_vars

\* C8: the llm_id of every persisted dialog resolves to a chat model accessible
\* to the dialog's tenant.
C8_LlmAccessible ==
    \A i \in 1..Len(dialogs) :
        [tenant_id |-> dialogs[i].tenant_id, llm_name |-> dialogs[i].llm_id, model_type |-> "chat"]
            \in TenantLLM

(***************************************************************************)
(* SpecPrompt: dialogs and their prompt objects (template, reranker)       *)
(***************************************************************************)
ParamK == [key |-> <<"k">>, optional |-> FALSE]
ParamH == [key |-> <<"h">>]
ParamOpt == [key |-> <<"o">>, optional |-> TRUE]

\* templates: "{k}", "{k}{h}", "k" (the key without braces), "" (empty)
TemplateK == <<"{", "k", "}">>
TemplateKH == <<"{", "k", "}", "{", "h", "}">>
TemplateBare == <<"k">>

PromptCreateReqs ==
    {[name |-> n, dataset_ids |-> <<>>] : n \in Names}
    \cup {[name |-> "a", dataset_ids |-> <<>>, prompt |-> p] :
            p \in {[prompt |-> TemplateK, variables |-> <<ParamK>>],
                   [prompt |-> TemplateK, variables |-> <<ParamK, ParamH>>],
                   [system |-> <<>>, parameters |-> <<ParamOpt>>],
                   [variables |-> <<ParamK>>]}}
    \cup {[name |-> "b", dataset_ids |-> <<>>, prompt |-> [rerank_model |-> r]] :
            r \in {"rr1", "BAAI/bge-reranker-v2-m3", "bogus"}}
    \cup {[name |-> "b", dataset_ids |-> <<>>, rerank_id |-> "bogus"]}

PromptUpdateReqs ==
    {[prompt |-> p] :
        p \in {[prompt |-> TemplateKH, variables |-> <<ParamK, ParamH>>],
               [prompt |-> TemplateBare],
               [variables |-> <<ParamH>>],
               [opener |-> "hello"],
               [rerank_model |-> "bogus"],
               [rerank_id |-> "rr1"]}}

PromptCreateChatStep == CreateChat(PromptCreateReqs)
PromptUpdateChatStep == UpdateChat(PromptUpdateReqs)

NextPrompt ==
    \/ PromptCreateChatStep
    \/ PromptUpdateChatStep

SpecPrompt == Init /\ [][NextPrompt]_vars

\* C5: in every stored dialog, every parameter of prompt_config that is not
\* optional has its placeholder "{key}" in prompt_config.system.
C5_TemplateConsistent ==
    \A i \in 1..Len(dialogs) :
        LET pcfg == dialogs[i].prompt_config
        IN "parameters" \in DOMAIN pcfg =>
            \A n \in 1..Len(pcfg["parameters"]) :
                LET prm == pcfg["parameters"][n]
                IN ("optional" \in DOMAIN prm /\ prm["optional"])
                   \/ /\ "system" \in DOMAIN pcfg
                      /\ \E at \in 1..Len(pcfg["system"]) :
                            /\ at + Len(prm["key"]) + 1 <= Len(pcfg["system"])
                            /\ pcfg["system"][at] = "{"
                            /\ SubSeq(pcfg["system"], at + 1, at + Len(prm["key"])) = prm["key"]
                            /\ pcfg["system"][at + Len(prm["key"]) + 1] = "}"

\* C9: the rerank_id of every persisted dialog is empty, one of the two built-in
\* rerankers, or a rerank model accessible to the dialog's tenant.
C9_RerankValid ==
    \A i \in 1..Len(dialogs) :
        \/ dialogs[i].rerank_id = ""
        \/ dialogs[i].rerank_id \in {"BAAI/bge-reranker-v2-m3", "maidalun1020/bce-reranker-base_v1"}
        \/ [tenant_id |-> dialogs[i].tenant_id, llm_name |-> dialogs[i].rerank_id, model_type |-> "rerank"]
            \in TenantLLM

(***************************************************************************)
(* SpecOnce: one request, drawn from a wide set, served on a database      *)
(* that earlier requests left                                              *)
(***************************************************************************)
\* databases reached by serving requests from the initial one
StoreA ==
    create_chat(<<>>, InitKbs, InitTenants, "t1", [name |-> "a", dataset_ids |-> <<"A">>], TRUE).dialogs
StoreAB ==
    create_chat(StoreA, InitKbs, InitTenants, "t2", [name |-> "b", dataset_ids |-> <<>>], TRUE).dialogs
StoreDeleted == delete_chats(StoreAB, "t1", <<1>>, 0).dialogs

OnceStores == {<<>>, StoreA, StoreAB, StoreDeleted}

\* all sequences over S of length at most n
RECURSIVE SeqsUpTo(_, _)
SeqsUpTo(S, n) ==
    IF n = 0 THEN {<<>>}
    ELSE LET shorter == SeqsUpTo(S, n - 1)
         IN shorter \cup {Append(q, x) : q \in shorter, x \in S}

IdLists == SeqsUpTo(KbIds \cup {""}, MaxIds)

Templates == {<<>>, TemplateK, TemplateKH, TemplateBare, <<"{", "k">>, <<"{", "h", "}", "k">>}

Params == {ParamK, ParamH, ParamOpt, [key |-> <<"h">>, optional |-> TRUE]}

ParamLists == SeqsUpTo(Params, MaxParams)

\* prompt objects that vary the template and the parameter list, under either name
TemplatePrompts ==
    LET systems == {EmptyDict} \cup {[system |-> t] : t \in Templates} \cup {[prompt |-> t] : t \in Templates}
        lists == {EmptyDict} \cup {[parameters |-> l] : l \in ParamLists}
                    \cup {[variables |-> l] : l \in ParamLists}
    IN {Update(sy, l) : sy \in systems, l \in lists}

\* prompt objects that vary the other translated fields
FieldPrompts ==
    {[system |-> TemplateK, prologue |-> "hello", parameters |-> <<ParamK>>, empty_response |-> "none",
      quote |-> FALSE, tts |-> TRUE, refine_multiturn |-> FALSE, similarity_threshold |-> 5,
      vector_similarity_weight |-> w, top_n |-> 3, rerank_id |-> "rr1"] : w \in {0, 4, 10}}
    \cup {[prompt |-> TemplateK, opener |-> "", variables |-> <<ParamK>>, show_quote |-> FALSE,
           rerank_model |-> r, keywords_similarity_weight |-> w] :
            r \in {"", "bogus", "BAAI/bge-reranker-v2-m3"}, w \in {0, 4}}
    \cup {[top_k |-> 5], [similarity_threshold |-> 0, top_n |-> 1, top_k |-> 1024],
          [quote |-> FALSE], [opener |-> "hi", prologue |-> "hello"],
          [vector_similarity_weight |-> 3, keywords_similarity_weight |-> 4],
          [system |-> TemplateK, prompt |-> TemplateKH, variables |-> <<ParamK>>],
          [keyword |-> TRUE, tts |-> TRUE]}

OncePrompts == TemplatePrompts \cup FieldPrompts

OnceCreateReqs ==
    {[name |-> n, dataset_ids |-> ids] : n \in {"a", "c", ""}, ids \in IdLists}
    \cup {[name |-> "c"], [name |-> "c", dataset_ids |-> <<>>, tenant_id |-> "t2"],
          [name |-> "c", dataset_ids |-> <<>>, rerank_id |-> "bogus"],
          [name |-> "c", dataset_ids |-> <<>>, rerank_id |-> "rr1", top_k |-> 7],
          [name |-> "c", dataset_ids |-> <<"A", "B">>, llm |-> [model_name |-> "bogus"]]}
    \cup {[name |-> "c", dataset_ids |-> <<>>, llm |-> [model_name |-> m, temperature |-> 7]] :
            m \in {"chat1", "chat2", "chat3", "bogus"}}
    \cup {[name |-> "c", dataset_ids |-> <<>>, prompt |-> p] : p \in OncePrompts}

OnceUpdateReqs ==
    {EmptyDict, [name |-> "b"], [name |-> "c", description |-> "d"], [show_quotation |-> TRUE],
     [name |-> "c", dataset_ids |-> <<"A", "B">>],
     [dataset_ids |-> <<"A">>, llm |-> [model_name |-> "bogus"]],
     [name |-> "c", prompt |-> EmptyDict]}
    \cup {[dataset_ids |-> ids] : ids \in IdLists}
    \cup {[llm |-> [model_name |-> m]] : m \in {"chat1", "chat2", "chat3", "bogus"}}
    \cup {[prompt |-> p] : p \in FieldPrompts}

OnceRequests ==
    {[op |-> "create_chat", tenant_id |-> t, chat_id |-> 0, request |-> r, saveOk |-> ok] :
        t \in Tenants, r \in OnceCreateReqs, ok \in BOOLEAN}
    \cup {[op |-> "update_chat", tenant_id |-> t, chat_id |-> c, request |-> r, saveOk |-> ok] :
            t \in Tenants, c \in 1..MaxDialogs, r \in OnceUpdateReqs, ok \in BOOLEAN}

InitOnce ==
    /\ dialogs \in OnceStores
    /\ kbs = InitKbs
    /\ tenants = InitTenants
    /\ resp = NoResp
    /\ lastReq \in OnceRequests
    /\ pc = "ready"
    /\ users = InitUsers
    /\ user_tenants = InitUserTenants
    /\ redis_lock = 0
    /\ engine = NoEngine
    /\ chunks = <<>>

OnceCreateChat ==
    /\ pc = "ready"
    /\ lastReq.op = "create_chat"
    /\ DialogsOutcome("create_chat", create_chat(dialogs, kbs, tenants, lastReq.tenant_id, lastReq.request, lastReq.saveOk))
    /\ pc' = "done"
    /\ UNCHANGED <<kbs, tenants, lastReq, engine, chunks, users, user_tenants, redis_lock>>

OnceUpdateChat ==
    /\ pc = "ready"
    /\ lastReq.op = "update_chat"
    /\ DialogsOutcome("update_chat", update_chat(dialogs, kbs, tenants, lastReq.tenant_id, lastReq.chat_id, lastReq.request, lastReq.saveOk))
    /\ pc' = "done"
    /\ UNCHANGED <<kbs, tenants, lastReq, engine, chunks, users, user_tenants, redis_lock>>

NextOnce ==
    \/ OnceCreateChat
    \/ OnceUpdateChat

SpecOnce == InitOnce /\ [][NextOnce]_vars

AssembledPrompt ==
    CreateFinal(tenants, lastReq.tenant_id, CreatePrepared(dialogs, lastReq.request))["prompt_config"]

\* "{key}" occurs in the template
Mentions(template, key) ==
    \E at \in 1..Len(template) :
        /\ at + Len(key) + 1 <= Len(template)
        /\ template[at] = "{"
        /\ \A n \in 1..Len(key) : template[at + n] = key[n]
        /\ template[at + Len(key) + 1] = "}"

\* the indices of the parameters with optional=false whose placeholder is absent
Unmentioned(pcfg) ==
    {i \in 1..Len(pcfg["parameters"]) :
        /\ ~("optional" \in DOMAIN pcfg["parameters"][i] /\ pcfg["parameters"][i]["optional"])
        /\ ~Mentions(pcfg["system"], pcfg["parameters"][i]["key"])}

\* C6: a create_chat request that passes every other check fails if and only if
\* some parameter with optional=false has "{key}" absent from the assembled
\* template, and the failure names the first such parameter in list order.
C6_ParameterCheck ==
    (/\ pc = "done"
     /\ resp.op = "create_chat"
     /\ resp.message.kind \in {"success", "Parameter is not used"})
    => /\ resp.code # "SUCCESS" <=> Unmentioned(AssembledPrompt) # {}
       /\ resp.code # "SUCCESS" =>
            \E i \in Unmentioned(AssembledPrompt) :
                /\ \A j \in Unmentioned(AssembledPrompt) : i <= j
                /\ resp.message.key = AssembledPrompt["parameters"][i]["key"]

\* C6 witness: of the parameters h, k, both absent from the template "k", the
\* failure named h.
C6_Witness ==
    /\ pc = "done"
    /\ resp.op = "create_chat"
    /\ resp.message.kind = "Parameter is not used"
    /\ resp.message.key = <<"h">>
    /\ lastReq.request["prompt"] = [system |-> TemplateBare, parameters |-> <<ParamH, ParamK>>]

\* the embedding-model families a dataset-id list maps to
FamiliesOf(ids) == {split_model_name(kbs[kb_id].embd_id) : kb_id \in SeqToSet(ids) \cap DOMAIN kbs}

\* C7: in create_chat and update_chat, a request whose dataset-id list reaches
\* the embedding-family check is rejected with the dataset-mismatch error when
\* the list maps to more than one family, and passes the check when it maps to
\* exactly one family or is empty.
C7_FamilyCheck ==
    (/\ pc = "done"
     /\ "dataset_ids" \in DOMAIN lastReq.request
     /\ resp.message.kind \notin {"You do not own the chat", "You don't own the dataset",
                                   "The dataset doesn't own parsed file"})
    => (resp.message.kind = "Datasets use different embedding models"
            <=> Cardinality(FamiliesOf(lastReq.request["dataset_ids"])) > 1)

\* the name a field of an external prompt object has in a response
ExternalName(k) == key_mapping_get(k)

\* the field is given under one name only
GivenOnce(p, k) == ExternalName(k) # k => ExternalName(k) \notin DOMAIN p

\* C10: for every prompt object p that create_chat accepts, the prompt object
\* of the response equals p on every translated field except
\* keywords_similarity_weight, which is 1 - p.vector_similarity_weight.
C10_RoundTrip ==
    (/\ pc = "done"
     /\ resp.op = "create_chat"
     /\ resp.code = "SUCCESS"
     /\ "prompt" \in DOMAIN lastReq.request)
    => /\ \A k \in DOMAIN lastReq.request["prompt"] :
            (GivenOnce(lastReq.request["prompt"], k) /\ ExternalName(k) # "keywords_similarity_weight")
            => /\ ExternalName(k) \in DOMAIN resp.data["prompt"]
               /\ resp.data["prompt"][ExternalName(k)] = lastReq.request["prompt"][k]
       /\ ("vector_similarity_weight" \in DOMAIN lastReq.request["prompt"]
            /\ GivenOnce(lastReq.request["prompt"], "vector_similarity_weight"))
          => resp.data["prompt"]["keywords_similarity_weight"]
                = 10 - lastReq.request["prompt"]["vector_similarity_weight"]

(***************************************************************************)
(* The completion adapter (POST /agents_openai/{agent_id}/chat/completions)*)
(*                                                                         *)
(* A message content and a text delta are sequences of text pieces (one    *)
(* character each in a request).  The wall-clock field "created" of a      *)
(* response is left out.                                                   *)
(* The inference engine (completionOpenAI) is the producer the             *)
(* specification describes: a finite script of text deltas that can be     *)
(* cancelled and is never restarted.                                       *)
(***************************************************************************)
MaxMessages == 2        \* length of the message list of a completion request
MaxDeltas == 2          \* number of text deltas the engine produces

Roles == {"system", "user", "assistant"}

Contents == {<<"a">>, <<"a", "b">>}

Message == [role : Roles, content : Contents]

\* a byte-pair encoding: neighbouring pieces that form an entry of the
\* vocabulary become one token (the vocabulary here: "a", "b" and "ab")
RECURSIVE encode(_)
encode(text) ==
    IF text = <<>> THEN <<>>
    ELSE IF Len(text) >= 2 /\ text[1] = "a" /\ text[2] = "b"
         THEN <<"ab">> \o encode(SubSeq(text, 3, Len(text)))
         ELSE <<text[1]>> \o encode(Tail(text))

\* the agents and their owners
UserCanvases == {[user_id |-> "t1", id |-> "agent1"], [user_id |-> "t2", id |-> "agent2"]}

UserCanvasService_query(user_id, id) == {c \in UserCanvases : c.user_id = user_id /\ c.id = id}

RECURSIVE Filter(_, _)
Filter(messages, wanted) ==
    IF messages = <<>> THEN <<>>
    ELSE IF messages[1].role \in wanted
         THEN <<messages[1]>> \o Filter(Tail(messages), wanted)
         ELSE Filter(Tail(messages), wanted)

filtered_messages_with_system(messages) == Filter(messages, {"user", "assistant", "system"})

filtered_messages(messages) == Filter(messages, {"user", "assistant"})

\* sum(len(tiktokenenc.encode(m.content)) for m in filtered_messages)
RECURSIVE prompt_tokens(_)
prompt_tokens(messages) ==
    IF messages = <<>> THEN 0
    ELSE Len(encode(messages[1].content)) + prompt_tokens(Tail(messages))

error_msg == <<"No", " valid", " messages", " found", " (", "user", " or", " assistant", ").">>

\* the single response of a request without a user or assistant message
SyntheticResponse(agent_id, model, prompt) ==
    get_success_response([id |-> agent_id,
             object |-> "chat.completion",
             model |-> model,
             choices |-> <<[message |-> [role |-> "assistant", content |-> error_msg],
                            finish_reason |-> "stop",
                            index |-> 0]>>,
             usage |-> [prompt_tokens |-> prompt,
                        completion_tokens |-> Len(encode(error_msg)),
                        total_tokens |-> prompt + Len(encode(error_msg))]])

RECURSIVE FirstUserContent(_)
FirstUserContent(messages) ==
    IF messages = <<>> THEN <<>>
    ELSE IF messages[1].role = "user" THEN messages[1].content
         ELSE FirstUserContent(Tail(messages))

\* next((m.content for m in reversed(messages) if m.role == "user"), "")
RECURSIVE question(_)
question(messages) ==
    IF messages = <<>> THEN <<>>
    ELSE IF messages[Len(messages)].role = "user" THEN messages[Len(messages)].content
         ELSE question(SubSeq(messages, 1, Len(messages) - 1))

(***************************************************************************)
(* The inference engine behind completionOpenAI: engine.script is the      *)
(* text the agent answers with, cut into deltas; engine.produced counts    *)
(* the deltas handed out; engine.state is idle, running, finished or       *)
(* cancelled; engine.calls records the invocations.                        *)
(***************************************************************************)
Deltas == {<<"a">>, <<"b">>}

Invoke(E, tenant_id, agent_id, q, session_id, stream) ==
    [E EXCEPT !.calls = Append(@, [tenant_id |-> tenant_id, agent_id |-> agent_id, question |-> q,
                                   session_id |-> session_id, stream |-> stream]),
              !.state = "running"]

KeepRunning(E) == E

Cancel(E) == [E EXCEPT !.state = "cancelled"]

RepeatedDelta(E) == E.script[1]

NextDelta(E) == E.script[E.produced + 1]

RECURSIVE Concat(_)
Concat(texts) == IF texts = <<>> THEN <<>> ELSE texts[1] \o Concat(Tail(texts))

\* the engine is handed the question only: its prompt is that one text
Usage(q, deltas) ==
    [prompt_tokens |-> Len(encode(q)),
     completion_tokens |-> Len(encode(Concat(deltas))),
     total_tokens |-> Len(encode(q)) + Len(encode(Concat(deltas)))]

NoUsage == [prompt_tokens |-> 0, completion_tokens |-> 0, total_tokens |-> 0]

DeltaChunk(agent_id, delta) ==
    [id |-> agent_id,
     object |-> "chat.completion.chunk",
     choices |-> <<[delta |-> [role |-> "assistant", content |-> delta],
                    finish_reason |-> "null",
                    index |-> 0]>>,
     has_usage |-> FALSE,
     usage |-> NoUsage]

FinalChunk(agent_id, q, deltas) ==
    [id |-> agent_id,
     object |-> "chat.completion.chunk",
     choices |-> <<[delta |-> [role |-> "assistant", content |-> <<>>],
                    finish_reason |-> "stop",
                    index |-> 0]>>,
     has_usage |-> TRUE,
     usage |-> Usage(q, deltas)]

\* the one object of the non-streaming mode
Aggregate(agent_id, q, deltas) ==
    [id |-> agent_id,
     object |-> "chat.completion",
     choices |-> <<[message |-> [role |-> "assistant", content |-> Concat(deltas)],
                    finish_reason |-> "stop",
                    index |-> 0]>>,
     usage |-> Usage(q, deltas)]

\* the response bodies of the completion endpoint
Enveloped(r) == [op |-> "completion", kind |-> "json", code |-> r.code, message |-> r.message, data |-> r.data]

StreamingResponse == [op |-> "completion", kind |-> "text/event-stream"]

SingleResponse(body) == [op |-> "completion", kind |-> "completion", body |-> body]

\* an exception that leaves a handler reaches the application's handler
global_exception_handler(exc) ==
    [code |-> "EXCEPTION_ERROR", message |-> Msg(exc, "", <<>>), data |-> NullData]

CompletionRequest_stream(request) == IF "stream" \in DOMAIN request THEN request.stream ELSE TRUE

\* next(completionOpenAI(..., stream=False)): the engine is driven to its end
DelegateSingleFirstDelta(E, agent_id, request, tenant_id, engineOk, k, q) ==
    [resp |-> SingleResponse(Aggregate(agent_id, q, IF E.script = <<>> THEN <<>> ELSE <<E.script[1]>>)), pc |-> "DONE",
     engine |-> [Invoke(E, tenant_id, agent_id, q, request.id, FALSE)
                    EXCEPT !.produced = Len(E.script), !.state = "finished"]]

DelegateSingle(E, agent_id, request, tenant_id, engineOk, k, q) ==
    IF engineOk
    THEN [resp |-> SingleResponse(Aggregate(agent_id, q, E.script)), pc |-> "DONE",
          engine |-> [Invoke(E, tenant_id, agent_id, q, request.id, FALSE)
                         EXCEPT !.produced = Len(E.script), !.state = "finished"]]
    ELSE [resp |-> Enveloped(global_exception_handler("engine failure")), pc |-> "ABORTED",
          engine |-> Cancel([Invoke(E, tenant_id, agent_id, q, request.id, FALSE)
                               EXCEPT !.produced = k])]

\* the handler from the delegation on: the question goes to the engine
CompletionDelegate(E, agent_id, request, tenant_id, engineOk, k, q) ==
    IF CompletionRequest_stream(request)
    THEN [resp |-> StreamingResponse, pc |-> "STREAMING",
          engine |-> Invoke(E, tenant_id, agent_id, q, request.id, TRUE)]
    ELSE DelegateSingle(E, agent_id, request, tenant_id, engineOk, k, q)

CompletionFiltered(E, agent_id, request, tenant_id, engineOk, k, filtered) ==
    IF filtered = <<>>
    THEN [resp |-> Enveloped(SyntheticResponse(agent_id, request.model, prompt_tokens(filtered))),
          pc |-> "DONE", engine |-> E]
    ELSE CompletionDelegate(E, agent_id, request, tenant_id, engineOk, k, question(request.messages))

agents_completion_openai_compatibility(E, agent_id, request, tenant_id, engineOk, k) ==
    IF request.messages = <<>>
    THEN [resp |-> Enveloped(get_error_response(Msg("You must provide at least one message.", "", <<>>))),
          pc |-> "DONE", engine |-> E]
    ELSE IF UserCanvasService_query(tenant_id, agent_id) = {}
    THEN [resp |-> Enveloped(get_error_response(Msg("You don't own the agent", agent_id, <<>>))),
          pc |-> "DONE", engine |-> E]
    ELSE CompletionFiltered(E, agent_id, request, tenant_id, engineOk, k,
                            filtered_messages(request.messages))

(***************************************************************************)
(* SpecCompletion: one completion request, from its arrival to the end of  *)
(* its response                                                            *)
(***************************************************************************)
MessageLists == SeqsUpTo(Message, MaxMessages)

CompletionRequests ==
    [model : {"m"}, messages : MessageLists, stream : BOOLEAN, id : {"s1"}]
    \cup [model : {"m"}, messages : MessageLists, id : {"s1"}]

Scripts == SeqsUpTo(Deltas, MaxDeltas)

InitCompletion ==
    /\ InitStore
    /\ lastReq \in [op : {"completion"}, tenant_id : Tenants, agent_id : {"agent1"},
                    request : CompletionRequests]
    /\ pc = "INIT"
    /\ engine \in {[NoEngine EXCEPT !.script = script] : script \in Scripts}
    /\ chunks = <<>>

CompletionOutcome(out) == resp' = out.resp /\ pc' = out.pc /\ engine' = out.engine

\* the request handler, up to the response object it returns
AgentsCompletion ==
    /\ pc = "INIT"
    /\ \E engineOk \in BOOLEAN, k \in 0..Len(engine.script) :
        CompletionOutcome(agents_completion_openai_compatibility(
            engine, lastReq.agent_id, lastReq.request, lastReq.tenant_id, engineOk, k))
    /\ UNCHANGED <<dialogs, kbs, tenants, lastReq, chunks, users, user_tenants, redis_lock>>

\* the deltas of the chunks emitted so far
EmittedDeltas(C) == [i \in 1..Len(C) |-> C[i].choices[1].delta.content]

\* the transport takes the next delta of the producer as one chunk
StreamDelta ==
    /\ engine.state = "running"
    /\ engine.produced < Len(engine.script)
    /\ chunks' = Append(chunks, DeltaChunk(lastReq.agent_id, NextDelta(engine)))
    /\ engine' = [engine EXCEPT !.produced = @ + 1]
    /\ pc' = "STREAMING"
    /\ UNCHANGED <<dialogs, kbs, tenants, resp, lastReq, users, user_tenants, redis_lock>>

\* the producer signals completion: the final chunk
StreamFinal ==
    /\ engine.state = "running"
    /\ engine.produced = Len(engine.script)
    /\ chunks' = Append(chunks, FinalChunk(lastReq.agent_id, engine.calls[Len(engine.calls)].question,
                                           EmittedDeltas(chunks)))
    /\ engine' = [engine EXCEPT !.state = "finished"]
    /\ pc' = "FINAL"
    /\ UNCHANGED <<dialogs, kbs, tenants, resp, lastReq, users, user_tenants, redis_lock>>

\* the terminal event that ends the stream
StreamClose ==
    /\ pc = "FINAL"
    /\ engine.state = "finished"
    /\ pc' = "DONE"
    /\ UNCHANGED <<dialogs, kbs, tenants, resp, lastReq, engine, chunks, users, user_tenants, redis_lock>>

\* the engine raises while the stream is open
EngineFails ==
    /\ pc = "STREAMING"
    /\ engine.state = "running"
    /\ pc' = "ABORTED"
    /\ engine' = Cancel(engine)
    /\ UNCHANGED <<dialogs, kbs, tenants, resp, lastReq, chunks, users, user_tenants, redis_lock>>

\* the caller goes away while the stream is open
ClientDisconnect ==
    /\ pc \in {"STREAMING", "FINAL"}
    /\ pc' = "ABORTED"
    /\ engine' = Cancel(engine)
    /\ UNCHANGED <<dialogs, kbs, tenants, resp, lastReq, chunks, users, user_tenants, redis_lock>>

NextCompletion ==
    \/ AgentsCompletion
    \/ StreamDelta
    \/ StreamFinal
    \/ StreamClose
    \/ EngineFails
    \/ ClientDisconnect

SpecCompletion == InitCompletion /\ [][NextCompletion]_vars

\* the completion request being served
Messages == lastReq.request.messages

Owned == UserCanvasService_query(lastReq.tenant_id, lastReq.agent_id) # {}

Answered == lastReq.op = "completion" /\ pc # "INIT"

\* the response is the single response that carries the fixed assistant message
IsSynthetic(r) ==
    /\ r.kind = "json"
    /\ r.code = "SUCCESS"
    /\ r.data.object = "chat.completion"
    /\ Len(r.data.choices) = 1
    /\ r.data.choices[1].message = [role |-> "assistant", content |-> error_msg]
    /\ r.data.choices[1].finish_reason = "stop"

RolesOf(messages) == {messages[i].role : i \in 1..Len(messages)}

UsageAdds(usage, messages) ==
    /\ usage.prompt_tokens + usage.completion_tokens = usage.total_tokens
    /\ usage.prompt_tokens = prompt_tokens(Filter(messages, {"user", "assistant"}))

\* C11: every completion response (the synthetic one, the final chunk of a
\* stream, the single object of the non-streaming mode) has
\* usage.prompt_tokens + usage.completion_tokens = usage.total_tokens, with
\* prompt_tokens the token count summed over the user and assistant messages.
C11_UsageAdds ==
    Answered =>
        /\ (resp.kind = "json" /\ resp.code = "SUCCESS") => UsageAdds(resp.data.usage, Messages)
        /\ resp.kind = "completion" => UsageAdds(resp.body.usage, Messages)
        /\ \A i \in 1..Len(chunks) : chunks[i].has_usage => UsageAdds(chunks[i].usage, Messages)

\* C12: a request on an owned agent whose non-empty message list has no user
\* and no assistant message is answered by the single synthetic response with
\* finish_reason "stop", and the engine is never invoked, whether stream is
\* true or false.
C12_SyntheticBypass ==
    (/\ Answered
     /\ Owned
     /\ Messages # <<>>
     /\ RolesOf(Messages) \cap {"user", "assistant"} = {})
    => /\ IsSynthetic(resp)
       /\ pc = "DONE"
       /\ engine.calls = <<>>
       /\ engine.state = "idle"
       /\ chunks = <<>>

C12_Witness ==
    /\ Answered
    /\ Owned
    /\ Len(Messages) = MaxMessages
    /\ RolesOf(Messages) = {"system"}
    /\ CompletionRequest_stream(lastReq.request)
    /\ IsSynthetic(resp)

UserIndexes(messages) == {i \in 1..Len(messages) : messages[i].role = "user"}

\* C13 as stated: whenever the engine is invoked, the question it is given is
\* the content of the most recent user message of the unfiltered list.
C13_QuestionIsLastUser ==
    \A i \in 1..Len(engine.calls) :
        /\ UserIndexes(Messages) # {}
        /\ engine.calls[i].question = Messages[Last(UserIndexes(Messages))].content

\* C13 amended: whenever the engine is invoked, the question it is given is
\* the content of the most recent user message of the unfiltered list, and
\* the empty string when the list has no user message.
C13_QuestionIsLastUserOrEmpty ==
    \A i \in 1..Len(engine.calls) :
        engine.calls[i].question =
            IF UserIndexes(Messages) = {} THEN <<>>
            ELSE Messages[Last(UserIndexes(Messages))].content

C13_Witness ==
    /\ Len(engine.calls) = 1
    /\ Cardinality(UserIndexes(Messages)) = 2
    /\ Messages[1].content # Messages[2].content
    /\ engine.calls[1].question = Messages[2].content

Streamed == Answered /\ resp.kind = "text/event-stream"

IsDeltaChunk(c, delta) ==
    /\ c.choices[1].delta.content = delta
    /\ c.choices[1].finish_reason = "null"
    /\ ~c.has_usage

IsFinalChunk(c) ==
    /\ c.choices[1].delta.content = <<>>
    /\ c.choices[1].finish_reason = "stop"
    /\ c.has_usage

\* C14: the chunks of a stream are the producer's deltas in producer order,
\* none skipped, duplicated or reordered, each with finish_reason null; a
\* stream that is not aborted ends with exactly one final chunk (empty delta,
\* finish_reason "stop", usage), and no chunk follows the final chunk.
C14_StreamOrder ==
    Streamed =>
        /\ Len(chunks) <= Len(engine.script) + 1
        /\ \A i \in 1..Len(chunks) :
            IF i <= Len(engine.script)
            THEN IsDeltaChunk(chunks[i], engine.script[i])
            ELSE IsFinalChunk(chunks[i])
        /\ pc = "STREAMING" => Len(chunks) <= Len(engine.script)
        /\ pc \in {"FINAL", "DONE"} => Len(chunks) = Len(engine.script) + 1

C14_Witness ==
    /\ Streamed
    /\ pc = "DONE"
    /\ Len(chunks) = MaxDeltas + 1
    /\ chunks[1].choices[1].delta.content # chunks[2].choices[1].delta.content

NoFinalChunk(C) == \A i \in 1..Len(C) : ~IsFinalChunk(C[i])

\* C15: a completion that enters ABORTED has its producer cancelled; a stream
\* aborted before its final chunk has none; and from ABORTED on the
\* invocation stays ABORTED and no chunk is emitted.
C15_AbortTerminal ==
    [][/\ (pc # "ABORTED" /\ pc' = "ABORTED") => engine'.state = "cancelled"
       /\ (pc = "STREAMING" /\ pc' = "ABORTED") => NoFinalChunk(chunks')
       /\ pc = "ABORTED" => (pc' = "ABORTED" /\ chunks' = chunks /\ engine' = engine)]_vars

C15_Witness ==
    /\ Streamed
    /\ pc = "ABORTED"
    /\ Len(chunks) = 1
    /\ Len(engine.script) = MaxDeltas
    /\ engine.state = "cancelled"

\* what the non-streaming mode returns for the request being served
NonStreaming ==
    agents_completion_openai_compatibility(
        [NoEngine EXCEPT !.script = engine.script], lastReq.agent_id,
        [model |-> lastReq.request.model, messages |-> Messages, stream |-> FALSE,
         id |-> lastReq.request.id],
        lastReq.tenant_id, TRUE, 0).resp

TopLevelFields ==
    {[external |-> "name", internal |-> "name"],
     [external |-> "description", internal |-> "description"],
     [external |-> "dataset_ids", internal |-> "kb_ids"],
     [external |-> "llm", internal |-> "llm_setting"],
     [external |-> "prompt", internal |-> "prompt_config"]}

\* the request gives the sub-field k of the nested object under one of its names
SuppliedIn(req, object, k) ==
    /\ object \in DOMAIN req
    /\ \E given \in DOMAIN req[object] : given = k \/ key_mapping_get(given) = k \/ key_mapping_get(k) = given

KeptIn(old, new, k) == k \in DOMAIN old => (k \in DOMAIN new /\ new[k] = old[k])

\* C17: a successful update_chat leaves unchanged every stored field whose
\* external field the request does not supply: the top-level columns, and
\* each sub-field of prompt_config and of llm_setting that the request's
\* prompt and llm objects do not mention.
C17_PartialMerge ==
    [][(resp'.op = "update_chat" /\ resp'.code = "SUCCESS") =>
        /\ \A f \in TopLevelFields :
            f.external \notin DOMAIN lastReq.request
            => dialogs'[lastReq.chat_id][f.internal] = dialogs[lastReq.chat_id][f.internal]
        /\ \A k \in DOMAIN dialogs[lastReq.chat_id].prompt_config :
            ~SuppliedIn(lastReq.request, "prompt", k)
            => KeptIn(dialogs[lastReq.chat_id].prompt_config, dialogs'[lastReq.chat_id].prompt_config, k)
        /\ \A k \in DOMAIN dialogs[lastReq.chat_id].llm_setting :
            ~SuppliedIn(lastReq.request, "llm", k)
            => KeptIn(dialogs[lastReq.chat_id].llm_setting, dialogs'[lastReq.chat_id].llm_setting, k)]_vars

\* the checks a request violates, each stated on the request and the database
\* (create_chat ignores the empty ids of its list)
CheckedIds(op, req) ==
    IF op = "create_chat" THEN SelectSeq(req["dataset_ids"], LAMBDA i : i # "") ELSE req["dataset_ids"]

ViolatesDatasets(op, req, tenant_id) ==
    /\ "dataset_ids" \in DOMAIN req
    /\ \/ \E i \in 1..Len(CheckedIds(op, req)) :
            \/ CheckedIds(op, req)[i] \notin DOMAIN kbs
            \/ kbs[CheckedIds(op, req)[i]].tenant_id # tenant_id
            \/ kbs[CheckedIds(op, req)[i]].chunk_num = 0
       \/ Cardinality(FamiliesOf(CheckedIds(op, req))) > 1

ViolatesLlm(req, tenant_id) ==
    /\ "llm" \in DOMAIN req
    /\ "model_name" \in DOMAIN req["llm"]
    /\ [tenant_id |-> tenant_id, llm_name |-> req["llm"]["model_name"], model_type |-> "chat"] \notin TenantLLM

\* the rerank model a request asks for ("" when it asks for none)
RequestedRerank(req) ==
    IF "prompt" \in DOMAIN req /\ "rerank_model" \in DOMAIN req["prompt"] THEN req["prompt"]["rerank_model"]
    ELSE IF "prompt" \in DOMAIN req /\ "rerank_id" \in DOMAIN req["prompt"] THEN req["prompt"]["rerank_id"]
    ELSE IF "rerank_id" \in DOMAIN req THEN req["rerank_id"]
    ELSE ""

ViolatesRerank(req, tenant_id) ==
    /\ RequestedRerank(req) # ""
    /\ RequestedRerank(req) \notin {"BAAI/bge-reranker-v2-m3", "maidalun1020/bce-reranker-base_v1"}
    /\ [tenant_id |-> tenant_id, llm_name |-> RequestedRerank(req), model_type |-> "rerank"] \notin TenantLLM

ViolatesName(op, req, tenant_id, chat_id) ==
    /\ "name" \in DOMAIN req
    /\ \E i \in 1..Len(dialogs) :
        /\ dialogs[i].name = req["name"]
        /\ dialogs[i].tenant_id = tenant_id
        /\ dialogs[i].status = VALID
        /\ op = "update_chat" => i # chat_id

\* the prompt configuration an update request supplies
SuppliedPromptConfig(req) == UpdatePrepared(req)["prompt_config"]

ViolatesTemplate(op, req) ==
    IF op = "create_chat" THEN Unmentioned(AssembledPrompt) # {}
    ELSE /\ "prompt" \in DOMAIN req
         /\ req["prompt"] # EmptyDict
         /\ "parameters" \in DOMAIN SuppliedPromptConfig(req)
         /\ "system" \in DOMAIN SuppliedPromptConfig(req)
         /\ Unmentioned(SuppliedPromptConfig(req)) # {}

EarliestViolated(op, req, tenant_id, chat_id) ==
    IF ViolatesDatasets(op, req, tenant_id) THEN "datasets"
    ELSE IF ViolatesLlm(req, tenant_id) THEN "llm"
    ELSE IF ViolatesRerank(req, tenant_id) THEN "rerank"
    ELSE IF ViolatesName(op, req, tenant_id, chat_id) THEN "name"
    ELSE IF ViolatesTemplate(op, req) THEN "template"
    ELSE "none"

FailuresOf(check) ==
    CASE check = "datasets" -> {"You don't own the dataset", "The dataset doesn't own parsed file",
                                "Datasets use different embedding models"}
      [] check = "llm" -> {"model_name doesn't exist"}
      [] check = "rerank" -> {"rerank_model doesn't exist"}
      [] check = "name" -> {"Duplicated chat name in creating chat"}
      [] check = "template" -> {"Parameter is not used"}
      [] OTHER -> {}

\* the request reaches the checks: an update addresses a valid dialog of the
\* caller, a creation gives a name and no tenant_id
ReachesChecks ==
    IF lastReq.op = "update_chat"
    THEN /\ lastReq.chat_id \in 1..Len(dialogs)
         /\ dialogs[lastReq.chat_id].tenant_id = lastReq.tenant_id
         /\ dialogs[lastReq.chat_id].status = VALID
    ELSE /\ "name" \in DOMAIN lastReq.request
         /\ lastReq.request["name"] # ""
         /\ "tenant_id" \notin DOMAIN lastReq.request

\* C18: create_chat and update_chat check datasets, llm model, rerank model,
\* unique name and template parameters in this order and then persist: the
\* failure of a request is that of the earliest check it violates, and the
\* request writes nothing.
C18_CheckOrder ==
    [][(pc = "ready" /\ pc' = "done" /\ ReachesChecks
        /\ EarliestViolated(lastReq.op, lastReq.request, lastReq.tenant_id, lastReq.chat_id) # "none")
       => /\ resp'.message.kind
                \in FailuresOf(EarliestViolated(lastReq.op, lastReq.request, lastReq.tenant_id, lastReq.chat_id))
          /\ dialogs' = dialogs]_vars

(***************************************************************************)
(* list_chats                                                              *)
(***************************************************************************)
\* DialogService.query(tenant_id=, status=)
DialogService_query_tenant(D, tenant_id, status) ==
    {i \in 1..Len(D) : D[i].tenant_id = tenant_id /\ D[i].status = status}

\* the rows with the ids of S, in id order, each formatted
RECURSIVE FormatRows(_, _, _)
FormatRows(D, S, i) ==
    IF i > Len(D) THEN <<>>
    ELSE IF i \in S THEN <<EncodeStored(D[i])>> \o FormatRows(D, S, i + 1)
         ELSE FormatRows(D, S, i + 1)

list_chats_of_any_tenant(D, tenant_id) ==
    get_result(FormatRows(D, {i \in 1..Len(D) : D[i].status = VALID}, 1), "SUCCESS", Msg("success", "", <<>>))

list_chats(D, tenant_id) ==
    get_result(FormatRows(D, DialogService_query_tenant(D, tenant_id, VALID), 1),
               "SUCCESS", Msg("success", "", <<>>))

(***************************************************************************)
(* SpecIsolation: the tenants work on each other's dialogs; every request  *)
(* is recorded with its caller and the dialog ids it names                 *)
(***************************************************************************)
IsoCreateReqs == {[name |-> "a", dataset_ids |-> <<>>]}

\* the request model of update_chat accepts fields it does not declare
IsoUpdateReqs == {[name |-> "b"], [tenant_id |-> "t2"], [status |-> INVALID]}

IsoDeleteLists == {<<i>> : i \in 1..MaxDialogs} \cup {<<>>, <<1, 2>>, <<1, 1>>}

Recorded(op, tenant_id, ids) == lastReq' = [op |-> op, tenant_id |-> tenant_id, ids |-> ids]

IsoCreateChat ==
    /\ pc = "serve"
    /\ Len(dialogs) < MaxDialogs
    /\ \E tenant_id \in Tenants, request \in IsoCreateReqs :
        /\ DialogsOutcome("create_chat", create_chat(dialogs, kbs, tenants, tenant_id, request, TRUE))
        /\ Recorded("create_chat", tenant_id, <<>>)
    /\ UNCHANGED <<kbs, tenants, pc, engine, chunks, users, user_tenants, redis_lock>>

IsoUpdateChat ==
    /\ pc = "serve"
    /\ \E tenant_id \in Tenants, chat_id \in 1..MaxDialogs, request \in IsoUpdateReqs, saveOk \in BOOLEAN :
        /\ DialogsOutcome("update_chat", update_chat(dialogs, kbs, tenants, tenant_id, chat_id, request, saveOk))
        /\ Recorded("update_chat", tenant_id, <<chat_id>>)
    /\ UNCHANGED <<kbs, tenants, pc, engine, chunks, users, user_tenants, redis_lock>>

IsoDeleteChats ==
    /\ pc = "serve"
    /\ \E tenant_id \in Tenants, ids \in IsoDeleteLists : \E raiseAt \in 0..Len(ids) :
        /\ DialogsOutcome("delete_chats", delete_chats(dialogs, tenant_id, ids, raiseAt))
        /\ Recorded("delete_chats", tenant_id, ids)
    /\ UNCHANGED <<kbs, tenants, pc, engine, chunks, users, user_tenants, redis_lock>>

\* GET /chats
IsoListChats ==
    /\ pc = "serve"
    /\ \E tenant_id \in Tenants :
        /\ resp' = Stamp("list_chats", list_chats(dialogs, tenant_id))
        /\ Recorded("list_chats", tenant_id, <<>>)
    /\ UNCHANGED <<dialogs, kbs, tenants, pc, engine, chunks, users, user_tenants, redis_lock>>

NextIsolation ==
    \/ IsoCreateChat
    \/ IsoUpdateChat
    \/ IsoDeleteChats
    \/ IsoListChats

SpecIsolation == Init /\ [][NextIsolation]_vars

\* dialog i is a valid dialog of tenant T
ValidOf(D, i, T) == i \in 1..Len(D) /\ D[i].tenant_id = T /\ D[i].status = VALID

\* C19: an update_chat or delete_chats of tenant T that names a dialog which
\* is not a valid dialog of T is rejected and leaves that dialog as it was,
\* and list_chats of T returns valid dialogs of T only.
C19_TenantIsolation ==
    [][/\ lastReq'.op \in {"update_chat", "delete_chats"} =>
            \A n \in 1..Len(lastReq'.ids) :
                ~ValidOf(dialogs, lastReq'.ids[n], lastReq'.tenant_id)
                => /\ resp'.code # "SUCCESS"
                   /\ Len(dialogs') = Len(dialogs)
                   /\ lastReq'.ids[n] \in 1..Len(dialogs)
                        => dialogs'[lastReq'.ids[n]] = dialogs[lastReq'.ids[n]]
       /\ lastReq'.op = "list_chats" =>
            \A n \in 1..Len(resp'.data) :
                /\ resp'.data[n]["tenant_id"] = lastReq'.tenant_id
                /\ resp'.data[n]["status"] = VALID
                /\ ValidOf(dialogs, resp'.data[n]["id"], lastReq'.tenant_id)]_vars

\* C19 witness: t2 was refused an update of a valid dialog of t1, and t1 holds
\* a dialog next to one of t2
C19_Witness ==
    /\ lastReq.op = "update_chat"
    /\ lastReq.tenant_id = "t2"
    /\ resp.message.kind = "You do not own the chat"
    /\ ValidOf(dialogs, lastReq.ids[1], "t1")
    /\ \E i \in 1..Len(dialogs) : ValidOf(dialogs, i, "t2")

(***************************************************************************)
(* Authentication: token_required and login                                *)
(*                                                                         *)
(* An access token is a positive number; the Authorization header 0 is the *)
(* header that is missing.  Python False as response data is FalseData.    *)
(***************************************************************************)
MaxTokens == 4          \* access tokens handed out, the initial ones included

FalseData == [false |-> TRUE]

\* UserService.query(access_token=, status=)
UserService_query_token(U, access_token, status) ==
    {u \in DOMAIN U : U[u].access_token = access_token /\ U[u].status = status}

\* UserService.query(email=)
UserService_query_email(U, email) == {u \in DOMAIN U : U[u].email = email}

\* UserService.query_user(email, password)
UserService_query_user(U, email, password) ==
    {u \in DOMAIN U : U[u].email = email /\ U[u].password = password /\ U[u].status = VALID}

\* get_uuid(): a token no user holds
FreshToken(U) == 1 + Last({U[u].access_token : u \in DOMAIN U})

\* the body FastAPI answers a raised HTTPException with
HTTPException(status_code, detail) == [status_code |-> status_code, detail |-> detail]

\* the tenant id, or the HTTPException the dependency raises
token_required(U, authorization) ==
    IF authorization = 0
    THEN [raised |-> TRUE, tenant_id |-> "",
          exception |-> HTTPException(401, "Missing authorization header")]
    ELSE IF UserService_query_token(U, authorization, VALID) = {}
    THEN [raised |-> TRUE, tenant_id |-> "",
          exception |-> HTTPException(401, "Authentication error: 401: Invalid token")]
    ELSE [raised |-> FALSE,
          tenant_id |-> CHOOSE u \in UserService_query_token(U, authorization, VALID) : TRUE,
          exception |-> HTTPException(0, "")]

construct_response(data, code, message, auth) ==
    [code |-> code, message |-> message, data |-> data, auth |-> auth]

\* user.access_token = get_uuid(); user.save()
LoginSave(U, u) == [U EXCEPT ![u].access_token = FreshToken(U)]

LoginUser(U, found) ==
    IF found # {}
    THEN [resp |-> construct_response(U[CHOOSE u \in found : TRUE], "SUCCESS",
                                      Msg("Welcome back!", "", <<>>), CHOOSE u \in found : TRUE),
          users |-> LoginSave(U, CHOOSE u \in found : TRUE)]
    ELSE [resp |-> get_json_result(FalseData, "AUTHENTICATION_ERROR",
                                   Msg("Email and password do not match!", "", <<>>)),
          users |-> U]

\* decryptOk: decrypt(password) does not raise
login(U, email, password, decryptOk) ==
    IF UserService_query_email(U, email) = {}
    THEN [resp |-> get_json_result(FalseData, "AUTHENTICATION_ERROR",
                                   Msg("Email is not registered!", email, <<>>)),
          users |-> U]
    ELSE IF ~decryptOk
    THEN [resp |-> get_json_result(FalseData, "SERVER_ERROR", Msg("Fail to crypt password", "", <<>>)),
          users |-> U]
    ELSE LoginUser(U, UserService_query_user(U, email, password))

(***************************************************************************)
(* SpecAuth: logins and requests that carry an Authorization header        *)
(***************************************************************************)
Emails == {"e1", "e2", "e3"}

Passwords == {"p1", "p2"}

Authorizations == 0..MaxTokens

\* the response body with the endpoint that produced it
Body(op, r) == [k \in DOMAIN r \cup {"op"} |-> IF k = "op" THEN op ELSE r[k]]

\* POST /user/login
Login ==
    /\ pc = "serve"
    /\ FreshToken(users) <= MaxTokens
    /\ \E email \in Emails, password \in Passwords, decryptOk \in BOOLEAN :
        /\ resp' = Body("login", login(users, email, password, decryptOk).resp)
        /\ users' = login(users, email, password, decryptOk).users
    /\ UNCHANGED <<dialogs, kbs, tenants, lastReq, pc, engine, chunks, user_tenants, redis_lock>>

\* a request that the dependency token_required turns away
Unauthorized ==
    /\ pc = "serve"
    /\ \E authorization \in Authorizations :
        /\ token_required(users, authorization).raised
        /\ resp' = Body("token_required", token_required(users, authorization).exception)
    /\ UNCHANGED <<dialogs, kbs, tenants, lastReq, pc, engine, chunks, users, user_tenants, redis_lock>>

\* POST /chats with an Authorization header that token_required accepts
AuthCreateChat ==
    /\ pc = "serve"
    /\ Len(dialogs) < MaxDialogs
    /\ \E authorization \in Authorizations, request \in LifeCreateReqs :
        /\ ~token_required(users, authorization).raised
        /\ DialogsOutcome("create_chat",
                          create_chat(dialogs, kbs, tenants, token_required(users, authorization).tenant_id,
                                      request, TRUE))
    /\ UNCHANGED <<kbs, tenants, lastReq, pc, engine, chunks, users, user_tenants, redis_lock>>

\* GET /chats with an Authorization header that token_required accepts
AuthListChats ==
    /\ pc = "serve"
    /\ \E authorization \in Authorizations :
        /\ ~token_required(users, authorization).raised
        /\ resp' = Stamp("list_chats", list_chats(dialogs, token_required(users, authorization).tenant_id))
    /\ UNCHANGED <<dialogs, kbs, tenants, lastReq, pc, engine, chunks, users, user_tenants, redis_lock>>

NextAuth ==
    \/ Login
    \/ Unauthorized
    \/ AuthCreateChat
    \/ AuthListChats

SpecAuth == Init /\ [][NextAuth]_vars

\* C20: every response is an envelope with the fields code, message and data;
\* a response whose code is not 0 has data null (the code being 0 exactly on
\* success).
C20_UniformEnvelope ==
    resp.op # "none" =>
        /\ {"code", "message", "data"} \subseteq DOMAIN resp
        /\ resp.code # "SUCCESS" => resp.data = NullData

(***************************************************************************)
(* Error classes of create_chat and update_chat (checked under SpecOnce)   *)
(***************************************************************************)
\* the responses that report a persistence failure (save returned false)
PersistenceFailures == {"Fail to new a chat!", "Fail to update the chat!"}

\* the responses built by the handlers' "except Exception" clause
CaughtExceptions == {"KeyError"}

\* C21: a persistence failure in create_chat or update_chat (save returns
\* false) is reported with the ServerError code, and an exception no check
\* anticipates with the UnhandledError code; neither with the ParamError code.
C21_ErrorTaxonomy ==
    pc = "done" =>
        /\ resp.message.kind \in PersistenceFailures => resp.code = "SERVER_ERROR"
        /\ resp.message.kind \in CaughtExceptions => resp.code = "EXCEPTION_ERROR"
        /\ resp.message.kind \in PersistenceFailures \cup CaughtExceptions => resp.code # "PARAM_ERROR"

(***************************************************************************)
(* The defaults merge of create_chat (checked under SpecOnce)              *)
(***************************************************************************)
\* the prompt object of a create_chat request (none is the empty object)
RequestPrompt(req) == IF "prompt" \in DOMAIN req THEN req["prompt"] ELSE EmptyDict

\* the values a prompt object supplies for the canonical field k, under its
\* canonical or its legacy name
SuppliedValues(p, k) ==
    {p[given] : given \in {g \in DOMAIN p : g = k \/ g = key_mapping_get(k)}}

\* the merge rule on one supplied value
Merged(k, v) == IF k = "system" /\ v = <<>> THEN default_prompt[k] ELSE v

\* the values the merge rule allows for the canonical field k
MergeResults(p, k) ==
    IF SuppliedValues(p, k) = {} THEN {default_prompt[k]}
    ELSE {Merged(k, v) : v \in SuppliedValues(p, k)}

\* C22: in a dialog that create_chat stores, each canonical prompt field
\* (system, prologue, parameters, empty_response, quote, tts,
\* refine_multiturn) holds the caller-supplied value, except that it holds
\* the default-template value when the field is absent or when the field is
\* system and the supplied value is empty; a supplied falsy value of any
\* other field is kept.
C22_DefaultsMerge ==
    [][(pc = "ready" /\ lastReq.op = "create_chat" /\ Len(dialogs') = Len(dialogs) + 1) =>
        \A n \in 1..Len(key_list_2) :
            /\ key_list_2[n] \in DOMAIN dialogs'[Len(dialogs')].prompt_config
            /\ dialogs'[Len(dialogs')].prompt_config[key_list_2[n]]
                \in MergeResults(RequestPrompt(lastReq.request), key_list_2[n])]_vars

\* C22 witness: the request gave an empty system and an empty parameter list
\* and no prologue; the stored dialog has the default system, the empty
\* list and the default prologue.
C22_Witness ==
    /\ pc = "done"
    /\ resp.op = "create_chat"
    /\ resp.code = "SUCCESS"
    /\ RequestPrompt(lastReq.request) = [system |-> <<>>, parameters |-> <<>>]
    /\ dialogs[Len(dialogs)].prompt_config["system"] = DefaultSystem
    /\ dialogs[Len(dialogs)].prompt_config["parameters"] = <<>>
    /\ dialogs[Len(dialogs)].prompt_config["prologue"] = default_prompt["prologue"]

(***************************************************************************)
(* The dataset validation of create_chat and update_chat (SpecOnce)        *)
(***************************************************************************)
\* the dataset id is not accessible to the tenant or its knowledge base holds no chunk
Offending(kb_id, tenant_id) ==
    \/ kb_id \notin DOMAIN kbs
    \/ kbs[kb_id].tenant_id # tenant_id
    \/ kbs[kb_id].chunk_num = 0

OffendingIndexes(ids, tenant_id) == {i \in 1..Len(ids) : Offending(ids[i], tenant_id)}

\* the request being served runs the dataset validation on a non-empty list
\* (update_chat runs it for a valid dialog of the caller only)
ValidatesDatasets ==
    /\ "dataset_ids" \in DOMAIN lastReq.request
    /\ lastReq.request["dataset_ids"] # <<>>
    /\ lastReq.op = "update_chat" => ValidOf(dialogs, lastReq.chat_id, lastReq.tenant_id)

\* C23: create_chat and update_chat reject a request with a non-empty
\* dataset id list unless every id of the list is accessible to the tenant
\* and references a knowledge base with a non-zero chunk count, and the
\* error message names the first offending id in list order.
C23_DatasetsValidated ==
    [][(pc = "ready" /\ pc' = "done" /\ ValidatesDatasets
        /\ OffendingIndexes(lastReq.request["dataset_ids"], lastReq.tenant_id) # {})
       => /\ resp'.code # "SUCCESS"
          /\ resp'.message.kind \in {"You don't own the dataset", "The dataset doesn't own parsed file"}
          /\ resp'.message.id
                = lastReq.request["dataset_ids"][First(OffendingIndexes(lastReq.request["dataset_ids"],
                                                                       lastReq.tenant_id))]
          /\ dialogs' = dialogs]_vars

(***************************************************************************)
(* SpecRace: two server processes serve one create_chat request each on    *)
(* the shared dialog table.  A handler runs without interruption inside    *)
(* its process; between its duplicate-name query and its save the other    *)
(* process may query or save.  Here pc and lastReq are per process.        *)
(***************************************************************************)
Workers == {"w1", "w2"}

RaceCreateReqs ==
    {[name |-> n, dataset_ids |-> <<>>] : n \in Names} \cup {[name |-> "a", dataset_ids |-> <<"D">>]}

\* create_chat from "Validate dataset IDs" to "Validate parameters are used in
\* system prompt": TRUE when no check returns and the handler reaches "Save chat"
CreatePassesChecks(D, K, T, tenant_id, request) ==
    /\ CheckDatasets(K, tenant_id, TruthyIds(request), 1).kind = "ok"
    /\ ~create_embd_mismatch(K, TruthyIds(request))
    /\ ~LlmRejected(request, tenant_id)
    /\ tenant_id \in DOMAIN T
    /\ ~RerankRejected(CreatePrepared(D, request), tenant_id)
    /\ Get(request, "name", "") # ""
    /\ DialogService_query_name(D, request["name"], tenant_id, VALID) = {}
    /\ Get(request, "tenant_id", "") = ""
    /\ FirstUnusedParameter(CreateFinal(T, tenant_id, CreatePrepared(D, request))["prompt_config"]) = 0

\* a save that runs the handler's checks again on the table it writes to
CreateSavePhaseRechecked(D, K, T, tenant_id, request, saveOk) ==
    create_chat(D, K, T, tenant_id, request, saveOk)

\* create_chat from "Save chat" on, for a request that passed the checks, on
\* the table as it is when the save runs (the uuid drawn at line 161 is an id
\* no other row has, whenever the row is inserted)
CreateSavePhase(D, K, T, tenant_id, request, saveOk) ==
    CreateSave(D, saveOk, CreateFinal(T, tenant_id, CreatePrepared(D, request)), 0)

NoRace == [op |-> "none", tenant_id |-> "", request |-> EmptyDict, raced |-> FALSE, saved |-> 0]

InitRace ==
    /\ InitStore
    /\ lastReq = [w \in Workers |-> NoRace]
    /\ pc = [w \in Workers |-> "idle"]
    /\ engine = NoEngine
    /\ chunks = <<>>

\* another process is between its query and its save, for the same tenant and name
RacesWith(w, tenant_id, request) ==
    \E o \in Workers \ {w} :
        /\ pc[o] = "checked"
        /\ lastReq[o].tenant_id = tenant_id
        /\ lastReq[o].request["name"] = request["name"]

\* process w receives POST /chats and runs the handler up to "Save chat"
RaceCheck(w) ==
    /\ pc[w] = "idle"
    /\ \E tenant_id \in Tenants, request \in RaceCreateReqs :
        /\ lastReq' = [lastReq EXCEPT ![w] = [op |-> "create_chat", tenant_id |-> tenant_id,
                                              request |-> request,
                                              raced |-> RacesWith(w, tenant_id, request), saved |-> 0]]
        /\ IF CreatePassesChecks(dialogs, kbs, tenants, tenant_id, request)
           THEN pc' = [pc EXCEPT ![w] = "checked"] /\ resp' = resp
           ELSE /\ pc' = [pc EXCEPT ![w] = "done"]
                /\ resp' = Stamp("create_chat", create_chat(dialogs, kbs, tenants, tenant_id, request, TRUE).resp)
    /\ UNCHANGED <<dialogs, kbs, tenants, engine, chunks, users, user_tenants, redis_lock>>

\* process w runs "Save chat" and answers
RaceSave(w) ==
    /\ pc[w] = "checked"
    /\ \E saveOk \in BOOLEAN :
        /\ DialogsOutcome("create_chat",
                          CreateSavePhase(dialogs, kbs, tenants, lastReq[w].tenant_id, lastReq[w].request, saveOk))
        /\ lastReq' = [lastReq EXCEPT ![w].saved = IF saveOk THEN Len(dialogs) + 1 ELSE 0,
                                      ![w].raced = @ \/ RacesWith(w, lastReq[w].tenant_id, lastReq[w].request)]
    /\ pc' = [pc EXCEPT ![w] = "done"]
    /\ UNCHANGED <<kbs, tenants, engine, chunks, users, user_tenants, redis_lock>>

NextRace ==
    \/ \E w \in Workers : RaceCheck(w)
    \/ \E w \in Workers : RaceSave(w)

SpecRace == InitRace /\ [][NextRace]_vars

\* the two requests have run their duplicate-name query before either saved
BothCheckedFirst ==
    /\ \A w \in Workers : lastReq[w].op = "create_chat" /\ lastReq[w].raced
    /\ \A w, o \in Workers :
        /\ lastReq[w].tenant_id = lastReq[o].tenant_id
        /\ lastReq[w].request["name"] = lastReq[o].request["name"]

\* C24: when two create_chat requests of one tenant with the same name both
\* run the duplicate-name query before either saves, each save that succeeds
\* persists its dialog: after both, the table holds two valid dialogs of that
\* tenant with that name.
C24_CreateRace ==
    (BothCheckedFirst /\ \A w \in Workers : pc[w] = "done" /\ lastReq[w].saved # 0)
    => \E i, j \in 1..Len(dialogs) :
        /\ i # j
        /\ \A n \in {i, j} :
            /\ dialogs[n].status = VALID
            /\ dialogs[n].tenant_id = lastReq["w1"].tenant_id
            /\ dialogs[n].name = lastReq["w1"].request["name"]

C24_Witness ==
    /\ BothCheckedFirst
    /\ \A w \in Workers : pc[w] = "done" /\ lastReq[w].saved # 0
    /\ Len(dialogs) = 2
    /\ dialogs[1].name = dialogs[2].name
    /\ dialogs[1].tenant_id = dialogs[2].tenant_id
    /\ dialogs[1].status = VALID
    /\ dialogs[2].status = VALID

(***************************************************************************)
(* Registration (api/routers/user.py): user_register, its rollback, and    *)
(* the two handlers that register, user_add and oauth_callback.            *)
(*                                                                         *)
(* A save of the persistence layer inserts its row or fails (it returns a  *)
(* falsy value or raises); a delete removes the rows it names or raises.   *)
(***************************************************************************)
\* the ids get_uuid() hands to new users
UserIds == {"u1", "u2"}

\* get_uuid() for a user id: an id no table holds
UnusedIds(U, T, UT) == UserIds \ (DOMAIN U \cup DOMAIN T \cup {r.user_id : r \in UT})

\* get_uuid() for an access token: a token no user holds
UnusedTokens(U) == (1..MaxTokens) \ {U[u].access_token : u \in DOMAIN U}

\* UserService.save(**user), TenantService.save(**tenant), UserTenantService.save(**user_tenant)
UserService_save(U, user) == [u \in DOMAIN U \cup {user.id} |-> IF u = user.id THEN user ELSE U[u]]

TenantService_save(T, id, tenant) == [t \in DOMAIN T \cup {id} |-> IF t = id THEN tenant ELSE T[t]]

UserTenantService_save(UT, user_tenant) == UT \cup {user_tenant}

\* UserService.delete(id=), TenantService.delete(id=), UserTenantService.delete(user_id=)
UserService_delete(U, id) == [u \in DOMAIN U \ {id} |-> U[u]]

TenantService_delete(T, id) == [t \in DOMAIN T \ {id} |-> T[t]]

UserTenantService_delete(UT, user_id) == {r \in UT : r.user_id # user_id}

\* the tables of the registration
Tables(U, T, UT) == [users |-> U, tenants |-> T, user_tenants |-> UT]

\* rollback_user_registration: three deletes, the exception of each is discarded
\* delOk[n]: the n-th delete does not raise
rollback_user_registration(S, user_id, delOk) ==
    Tables(IF delOk[1] THEN UserService_delete(S.users, user_id) ELSE S.users,
           IF delOk[2] THEN TenantService_delete(S.tenants, user_id) ELSE S.tenants,
           IF delOk[3] THEN UserTenantService_delete(S.user_tenants, user_id) ELSE S.user_tenants)

\* the rows user_register builds
UserRow(user_id, user) ==
    [id |-> user_id, email |-> user.email, password |-> user.password,
     access_token |-> user.access_token, status |-> VALID]

\* the tenant row: the default models of LLMService.default_llm()
TenantRow == [llm_id |-> "chat1", embd_id |-> "emb1"]

UserTenantRow(user_id) == [user_id |-> user_id, tenant_id |-> user_id, role |-> "owner"]

\* user_register: failAt is the save that fails (0: none); what was saved before stays
user_register(S, user_id, user, failAt) ==
    IF failAt = 1
    THEN [raised |-> TRUE, message |-> "Save user error", tables |-> S]
    ELSE IF failAt = 2
    THEN [raised |-> TRUE, message |-> "Save tenant error",
          tables |-> Tables(UserService_save(S.users, UserRow(user_id, user)), S.tenants, S.user_tenants)]
    ELSE IF failAt = 3
    THEN [raised |-> TRUE, message |-> "Save user tenant relationship error",
          tables |-> Tables(UserService_save(S.users, UserRow(user_id, user)),
                            TenantService_save(S.tenants, user_id, TenantRow), S.user_tenants)]
    ELSE [raised |-> FALSE, message |-> "",
          tables |-> Tables(UserService_save(S.users, UserRow(user_id, user)),
                            TenantService_save(S.tenants, user_id, TenantRow),
                            UserTenantService_save(S.user_tenants, UserTenantRow(user_id)))]

\* the module never imports re: re.match raises NameError
re_imported == FALSE

\* re.match(regex, email) on the addresses of the model
EmailMatches(email) == email # "bad"

\* user_add, "Register user": registration, rollback on failure, response
AddRegister(S, data, user_id, token, failAt, delOk, reg) ==
    IF reg.raised
    THEN [resp |-> Error(Msg(reg.message, "", <<>>)),
          tables |-> rollback_user_registration(reg.tables, user_id, delOk)]
    ELSE [resp |-> construct_response(reg.tables.users[user_id], "SUCCESS", Msg("success", "", <<>>), user_id),
          tables |-> reg.tables]

\* POST /user/register; data: the request body, decryptOk: decrypt(password) does not raise
user_add(S, data, decryptOk, user_id, token, failAt, delOk) ==
    IF {"nickname", "email", "password"} \ DOMAIN data # {}
    THEN [resp |-> HTTPException(400, "Missing required parameters"), tables |-> S]
    ELSE IF data.email = ""
    THEN [resp |-> Error(Msg("Email is required", "", <<>>)), tables |-> S]
    ELSE IF ~re_imported
    THEN [resp |-> Error(Msg("name 're' is not defined", "", <<>>)), tables |-> S]
    ELSE IF ~EmailMatches(data.email)
    THEN [resp |-> Error(Msg("Invalid email format", "", <<>>)), tables |-> S]
    ELSE IF UserService_query_email(S.users, data.email) # {}
    THEN [resp |-> Error(Msg("Email is already registered", data.email, <<>>)), tables |-> S]
    ELSE IF data.password = ""
    THEN [resp |-> Error(Msg("Password is required", "", <<>>)), tables |-> S]
    ELSE IF ~decryptOk
    THEN [resp |-> Error(Msg("Fail to crypt password", "", <<>>)), tables |-> S]
    ELSE AddRegister(S, data, user_id, token, failAt, delOk,
                     user_register(S, user_id,
                                   [email |-> data.email, password |-> data.password, access_token |-> token],
                                   failAt))

\* the redirect a callback answers with
RedirectResponse(kind, value) == [kind |-> kind, value |-> value]

\* user.access_token = get_uuid(); user.save()
CallbackLogin(S, u) ==
    [resp |-> RedirectResponse("token", CHOOSE n \in UnusedTokens(S.users) : TRUE),
     tables |-> Tables([S.users EXCEPT ![u].access_token = CHOOSE n \in UnusedTokens(S.users) : TRUE],
                       S.tenants, S.user_tenants)]

\* oauth_callback, "Login or register", for a new email
CallbackRegister(user_id, delOk, reg) ==
    IF reg.raised
    THEN [resp |-> RedirectResponse("error", reg.message),
          tables |-> rollback_user_registration(reg.tables, user_id, delOk)]
    ELSE CallbackLogin(reg.tables, user_id)

\* GET /user/oauth/callback/{channel}; code: the authorization code ("" when
\* missing), channel: the channel is configured, granted: the provider hands
\* out an access token, email: the address the provider reports ("" when none)
oauth_callback(S, code, channel, granted, email, user_id, token, failAt, delOk) ==
    IF code = "" THEN [resp |-> RedirectResponse("error", "missing_code"), tables |-> S]
    ELSE IF ~channel THEN [resp |-> RedirectResponse("error", "Invalid channel name"), tables |-> S]
    ELSE IF ~granted THEN [resp |-> RedirectResponse("error", "token_failed"), tables |-> S]
    ELSE IF email = "" THEN [resp |-> RedirectResponse("error", "email_missing"), tables |-> S]
    ELSE IF UserService_query_email(S.users, email) # {}
    THEN CallbackLogin(S, CHOOSE u \in UserService_query_email(S.users, email) : TRUE)
    ELSE CallbackRegister(user_id, delOk,
                          user_register(S, user_id, [email |-> email, password |-> "", access_token |-> token],
                                        failAt))

(***************************************************************************)
(* SpecRegister: registrations whose saves and rollback deletes may fail   *)
(***************************************************************************)
RegEmails == {"", "e1", "e3", "e4"}

RegBodies ==
    {[nickname |-> "n", email |-> e, password |-> p] : e \in {"", "e3", "bad"}, p \in {"", "p1"}}
    \cup {[nickname |-> "n", email |-> "e3"]}

DelOks == [1..3 -> BOOLEAN]

\* the tables as the next state, and the request as the record of the step
TablesOutcome(op, out, user_id, failAt) ==
    /\ users' = out.tables.users
    /\ tenants' = out.tables.tenants
    /\ user_tenants' = out.tables.user_tenants
    /\ resp' = Body(op, out.resp)
    /\ lastReq' = [op |-> op, user_id |-> user_id, failAt |-> failAt]

UserAdd ==
    /\ pc = "serve"
    /\ \E user_id \in UnusedIds(users, tenants, user_tenants), token \in UnusedTokens(users),
          data \in RegBodies, decryptOk \in BOOLEAN :
        TablesOutcome("user_add",
                      user_add(Tables(users, tenants, user_tenants), data, decryptOk, user_id, token,
                               0, [n \in 1..3 |-> TRUE]),
                      user_id, 0)
    /\ UNCHANGED <<dialogs, kbs, pc, engine, chunks, redis_lock>>

OauthCallback ==
    /\ pc = "serve"
    /\ \E user_id \in UnusedIds(users, tenants, user_tenants), token \in UnusedTokens(users),
          code \in {"", "c"}, channel \in BOOLEAN, granted \in BOOLEAN, email \in RegEmails,
          failAt \in 0..3, delOk \in DelOks :
        /\ Cardinality(UnusedTokens(users)) >= 2
        /\ (code = "" \/ ~channel \/ ~granted \/ email = "" \/ UserService_query_email(users, email) # {})
                => (failAt = 0 /\ delOk = [n \in 1..3 |-> TRUE])
        /\ TablesOutcome("oauth_callback",
                         oauth_callback(Tables(users, tenants, user_tenants), code, channel, granted, email,
                                        user_id, token, failAt, delOk),
                         user_id, failAt)
    /\ UNCHANGED <<dialogs, kbs, pc, engine, chunks, redis_lock>>

NextRegister ==
    \/ UserAdd
    \/ OauthCallback

SpecRegister == Init /\ [][NextRegister]_vars

\* C25: if user_register fails at one of its three saves during user_add or
\* oauth_callback, then after the handler returned no User, Tenant or
\* UserTenant row with the generated user id is in the store.
C25_RegistrationRollback ==
    (lastReq.op \in {"user_add", "oauth_callback"} /\ lastReq.failAt # 0)
    => /\ lastReq.user_id \notin DOMAIN users
       /\ lastReq.user_id \notin DOMAIN tenants
       /\ \A r \in user_tenants : r.user_id # lastReq.user_id

(***************************************************************************)
(* The background loop update_progress (api/fastapi_server.py) of every    *)
(* server process, and the distributed lock it takes.                      *)
(*                                                                         *)
(* The lock is a key of the shared store tagged with the lock_value of its *)
(* holder: acquire takes the key when nobody holds it, release gives it    *)
(* up when the caller's lock_value is the tag, and the key expires when    *)
(* its timeout has passed.  Here pc is per server process.                 *)
(***************************************************************************)
MaxServers == 3         \* server processes that run the loop

Servers == 1..MaxServers

\* redis_lock.acquire(): the lock after the call; the call returns true iff the caller holds it then
RedisDistributedLock_acquire(lock, p) == IF lock = 0 THEN p ELSE lock

\* redis_lock.release(): the lock after the call
RedisDistributedLock_release(lock, p) == IF lock = p THEN 0 ELSE lock

InitLock ==
    /\ InitStore
    /\ lastReq = NoReq
    /\ pc = [p \in Servers |-> "while"]
    /\ engine = NoEngine
    /\ chunks = <<>>

\* while not stop_event.is_set(): ... if redis_lock.acquire():
Acquire(p) ==
    /\ pc[p] = "while"
    /\ redis_lock' = RedisDistributedLock_acquire(redis_lock, p)
    /\ pc' = [pc EXCEPT ![p] = IF redis_lock' = p THEN "update_progress" ELSE "wait"]
    /\ UNCHANGED <<dialogs, kbs, tenants, resp, lastReq, engine, chunks, users, user_tenants>>

\* DocumentService.update_progress() returns; redis_lock.release()
Release(p) ==
    /\ pc[p] = "update_progress"
    /\ redis_lock' = RedisDistributedLock_release(redis_lock, p)
    /\ pc' = [pc EXCEPT ![p] = "wait"]
    /\ UNCHANGED <<dialogs, kbs, tenants, resp, lastReq, engine, chunks, users, user_tenants>>

\* DocumentService.update_progress() raises: except Exception
Raises(p) ==
    /\ pc[p] = "update_progress"
    /\ pc' = [pc EXCEPT ![p] = "finally"]
    /\ UNCHANGED <<dialogs, kbs, tenants, resp, lastReq, engine, chunks, users, user_tenants, redis_lock>>

\* stop_event.wait(6)
Wait(p) ==
    /\ pc[p] = "wait"
    /\ pc' = [pc EXCEPT ![p] = "finally"]
    /\ UNCHANGED <<dialogs, kbs, tenants, resp, lastReq, engine, chunks, users, user_tenants, redis_lock>>

\* finally: redis_lock.release(), then the next round of the loop
FinallyRelease(p) ==
    /\ pc[p] = "finally"
    /\ redis_lock' = RedisDistributedLock_release(redis_lock, p)
    /\ pc' = [pc EXCEPT ![p] = "while"]
    /\ UNCHANGED <<dialogs, kbs, tenants, resp, lastReq, engine, chunks, users, user_tenants>>

\* stop_event is set (signal_handler): the loop ends
Stop(p) ==
    /\ pc[p] = "while"
    /\ pc' = [pc EXCEPT ![p] = "stopped"]
    /\ UNCHANGED <<dialogs, kbs, tenants, resp, lastReq, engine, chunks, users, user_tenants, redis_lock>>

\* the key's timeout (60 seconds) passes while it is held
LockExpires ==
    /\ redis_lock # 0
    /\ redis_lock' = 0
    /\ UNCHANGED <<dialogs, kbs, tenants, resp, lastReq, pc, engine, chunks, users, user_tenants>>

NextLock ==
    \/ \E p \in Servers : Acquire(p)
    \/ \E p \in Servers : Release(p)
    \/ \E p \in Servers : Raises(p)
    \/ \E p \in Servers : Wait(p)
    \/ \E p \in Servers : FinallyRelease(p)
    \/ \E p \in Servers : Stop(p)
    \/ LockExpires

SpecLock == InitLock /\ [][NextLock]_vars

\* process p calls redis_lock.release() in this step
CallsRelease(p) == pc[p] \in {"update_progress", "finally"} /\ pc'[p] \in {"wait", "while"}

\* C26: across the server processes, DocumentService.update_progress is
\* executed by at most one process at a time, a process executes it only
\* while it holds the lock, and a process never releases a lock that it does
\* not hold.
C26_LockDiscipline ==
    [][/\ Cardinality({p \in Servers : pc'[p] = "update_progress"}) <= 1
       /\ \A p \in Servers : pc'[p] = "update_progress" => redis_lock' = p
       /\ \A p \in Servers : CallsRelease(p) => redis_lock = p]_vars

(***************************************************************************)
(* The frame of update_chat (checked under SpecIsolation)                  *)
(***************************************************************************)
\* C27: update_chat never changes the identity or ownership of a dialog:
\* whatever the request body holds, fields outside the declared ones
\* included, the id, tenant_id and status of every stored dialog are the
\* same after the request as before.
C27_IdentityFrame ==
    [][lastReq'.op = "update_chat" =>
        /\ Len(dialogs') = Len(dialogs)
        /\ \A i \in 1..Len(dialogs) :
            /\ dialogs'[i].id = dialogs[i].id
            /\ dialogs'[i].tenant_id = dialogs[i].tenant_id
            /\ dialogs'[i].status = dialogs[i].status]_vars

(***************************************************************************)
(* delete_chats and its pre-checks (checked under SpecIsolation)           *)
(***************************************************************************)
\* the id list fails a pre-check of delete_chats on the table D
FailsPreChecks(D, ids, tenant_id) ==
    \/ ids = <<>>
    \/ \E m, n \in 1..Len(ids) : m # n /\ ids[m] = ids[n]
    \/ \E n \in 1..Len(ids) : ~ValidOf(D, ids[n], tenant_id)

\* C28: delete_chats is all-or-nothing with respect to its pre-checks: a
\* list that is empty, holds a duplicate or names a dialog that is not a
\* valid dialog of the caller is answered with an error and nothing is
\* deleted; otherwise every listed dialog is deleted and delete_ids is the
\* request list.
C28_DeleteAllOrNothing ==
    [][lastReq'.op = "delete_chats" =>
        IF FailsPreChecks(dialogs, lastReq'.ids, lastReq'.tenant_id)
        THEN resp'.code # "SUCCESS" /\ dialogs' = dialogs
        ELSE /\ resp'.code = "SUCCESS"
             /\ resp'.data = [delete_ids |-> lastReq'.ids]
             /\ \A n \in 1..Len(lastReq'.ids) : dialogs'[lastReq'.ids[n]].status = INVALID]_vars

(***************************************************************************)
(* dataset_ids of the create_chat response (checked under SpecOnce)        *)
(***************************************************************************)
\* C29: the dataset_ids returned by a successful create_chat equals the
\* kb_ids stored for the new dialog, for every request, also when the
\* request's dataset_ids holds empty entries or is omitted.
C29_CreateReturnsStoredIds ==
    (/\ pc = "done"
     /\ lastReq.op = "create_chat"
     /\ resp.code = "SUCCESS")
    => resp.data["dataset_ids"] = dialogs[Len(dialogs)]["kb_ids"]

(***************************************************************************)
(* Agreement of the three encoders (checked under SpecOnce)                *)
(***************************************************************************)
\* C30: for the same stored dialog record the chat representation built by
\* create_chat, by update_chat and by list_chats has the same keys and the
\* same values: the data of a successful create_chat or update_chat is the
\* representation that update_chat and list_chats build of the row stored.
C30_EncodersAgree ==
    /\ (pc = "done" /\ lastReq.op = "create_chat" /\ resp.code = "SUCCESS")
        => resp.data = EncodeStored(dialogs[Len(dialogs)])
    /\ (pc = "done" /\ lastReq.op = "update_chat" /\ resp.code = "SUCCESS")
        => resp.data = EncodeStored(dialogs[lastReq.chat_id])

====
